---- MODULE Spec2Model ----
(***************************************************************************)
(* A model of incant's Incanter: the hook registry, the dependency-tree    *)
(* builder (_gen_dep_tree), the plan generator (_gen_call), the code       *)
(* generator (compile_invoke), the two lru caches, and the execution of a *)
(* generated routine.                                                      *)
(***************************************************************************)
EXTENDS Integers, Sequences, FiniteSets, TLC

VARIABLES hook_factory_registry, call_cache, incant_cache, op, ret, trace, threads

vars == <<hook_factory_registry, call_cache, incant_cache, op, ret, trace, threads>>

(***************************************************************************)
(* Bounds of the model.                                                    *)
(***************************************************************************)
\* Registrations on one Incanter, and entries of its composition cache.
MaxHooks == 2
MaxCache == 2
\* Entries of the direct-call cache.
MaxIncant == 2
\* Hooks of a constructed registry plus forced dependencies of one compose.
MaxWiring == 2
MaxArgs == 2
MaxKwargs == 2
MaxThreads == 2

(***************************************************************************)
(* Python values the model needs.                                          *)
(***************************************************************************)
\* inspect.Signature.empty: no annotation, no default.
Empty == "empty"
\* None, for an absent resolver, an absent is_ctx_manager, an unspecified is_async.
None == "None"

\* A safe issubclass over the classes of the model: bool is a subclass of int.
is_subclass(type, superclass) ==
    /\ type # Empty
    /\ superclass # Empty
    /\ \/ type = superclass
       \/ type = "bool" /\ superclass = "int"

\* An inspect.Parameter.  override holds the Override of an Annotated
\* annotation, when there is one; the annotation itself is then the alias.
Param(name, type, default, kind) ==
    [name |-> name, type |-> type, default |-> default, kind |-> kind, override |-> <<>>]

NO_OVERRIDE == "NO_OVERRIDE"
Override(name, annotation) == [name |-> name, annotation |-> annotation]

\* A parameter declared name: Annotated[..., override].
Annotated(name, default, kind, override) ==
    [name |-> name, type |-> "Annotated", default |-> default, kind |-> kind,
     override |-> <<override>>]

get_annotated_override(p) ==
    IF p.override = <<>> THEN p
    ELSE LET arg == p.override[1]
         IN  [name |-> IF arg.name # None THEN arg.name ELSE p.name,
              type |-> IF arg.annotation # NO_OVERRIDE THEN arg.annotation ELSE p.type,
              default |-> p.default, kind |-> p.kind, override |-> <<>>]

PK == "POSITIONAL_OR_KEYWORD"
KO == "KEYWORD_ONLY"

(***************************************************************************)
(* The callables of the model: for each its signature, whether it is a    *)
(* coroutine function, and its return annotation.                          *)
(***************************************************************************)
FnTable ==
    [ dep1 |-> [params |-> <<>>, coro |-> FALSE, ret |-> "int"],
      dep2 |-> [params |-> <<Param("dep1", "int", Empty, PK)>>,
                coro |-> FALSE, ret |-> "int"],
      mid  |-> [params |-> <<Param("x", "int", "d0", PK), Param("y", Empty, "d1", PK),
                             Param("opt", Empty, "d2", KO)>>,
                coro |-> FALSE, ret |-> Empty],
      top  |-> [params |-> <<Param("mid", Empty, Empty, PK)>>,
                coro |-> FALSE, ret |-> Empty],
      cm1  |-> [params |-> <<Param("dep1", "str", Empty, PK)>>,
                coro |-> FALSE, ret |-> Empty],
      cm2  |-> [params |-> <<Param("x", "str", Empty, PK)>>,
                coro |-> FALSE, ret |-> Empty],
      adep |-> [params |-> <<>>, coro |-> TRUE, ret |-> "bool"],
      fn   |-> [params |-> <<Param("dep2", Empty, Empty, PK),
                             Param("dep1", "int", Empty, PK),
                             Param("y", Empty, Empty, PK)>>,
                coro |-> FALSE, ret |-> "int"],
      fn2  |-> [params |-> <<Param("top", Empty, Empty, PK), Param("x", Empty, "d3", PK)>>,
                coro |-> FALSE, ret |-> Empty],
      afn  |-> [params |-> <<Param("flag", "bool", Empty, PK)>>,
                coro |-> TRUE, ret |-> Empty],
      ofn  |-> [params |-> <<Annotated("a", Empty, PK, Override("dep1", NO_OVERRIDE)),
                             Param("y", "str", Empty, PK)>>,
                coro |-> FALSE, ret |-> Empty],
      Res  |-> [params |-> <<>>, coro |-> FALSE, ret |-> Empty] ]

Fns == DOMAIN FnTable
\* The callables that are classes: isinstance(fn, type).
Classes == {"Res"}
isclass(f) == f \in Classes

signature(f) == FnTable[f].params
\* The signature of f with the overrides applied.
_signature(f) == [k \in DOMAIN signature(f) |-> get_annotated_override(signature(f)[k])]
iscoroutinefunction(f) == FnTable[f].coro
return_annotation(f) == FnTable[f].ret

(***************************************************************************)
(* Hooks.  A predicate is by parameter name, by declared type or a         *)
(* subclass of it (register_by_type), or by exact type (Hook.for_type).   *)
(* The resolver is absent (None) or a factory with its is_ctx_manager.    *)
(***************************************************************************)
Hook(predicate, factory, is_ctx_manager) ==
    [predicate |-> predicate, factory |-> factory, is_ctx_manager |-> is_ctx_manager]

ByName(name) == [by |-> "name", v |-> name]
ByType(type) == [by |-> "type", v |-> type]
ByExactType(type) == [by |-> "exact", v |-> type]

\* hook.predicate(param)
predicate(hook, param) ==
    CASE hook.predicate.by = "name" -> param.name = hook.predicate.v
      [] hook.predicate.by = "type" ->
            param.type = hook.predicate.v \/ is_subclass(param.type, hook.predicate.v)
      [] OTHER -> param.type = hook.predicate.v

\* hook.factory[0](param): register_hook wraps the factory in a constant
\* provider; provide_by_type is a provider that looks at the parameter.
provide_by_type(param) == IF param.type = "bool" THEN "adep" ELSE "dep1"

hook_factory(hook, param) ==
    IF hook.factory = "provide_by_type" THEN provide_by_type(param) ELSE hook.factory

for_name(name, hook) == Hook(ByName(name), hook, None)
for_type(type, hook) == Hook(ByExactType(type), hook, None)

(***************************************************************************)
(* Dependencies of a node: a ParameterDep comes from the caller, a        *)
(* FactoryDep from another node.                                           *)
(***************************************************************************)
ParameterDep(arg_name, type, default) ==
    [tag |-> "param", arg_name |-> arg_name, type |-> type, default |-> default,
     factory |-> None, is_ctx_manager |-> None]

FactoryDep(factory, arg_name, is_ctx_manager) ==
    [tag |-> "factory", arg_name |-> arg_name, type |-> Empty, default |-> Empty,
     factory |-> factory, is_ctx_manager |-> is_ctx_manager]

Node(factory, ctx_mgr_kind, deps) ==
    [factory |-> factory, ctx_mgr_kind |-> ctx_mgr_kind, deps |-> deps]

\* A forced dependency as compose normalises it: (factory, kind).
Forced(factory, ctx_mgr_kind) == [factory |-> factory, ctx_mgr_kind |-> ctx_mgr_kind]

(***************************************************************************)
(* _gen_dep_tree                                                           *)
(***************************************************************************)
RECURSIVE FirstHook_from_the_end(_, _, _, _)
\* A loop over the hooks from the last one to the first.
FirstHook_from_the_end(hooks, i, node, param) ==
    IF i > Len(hooks) THEN 0
    ELSE IF predicate(hooks[Len(hooks) + 1 - i], param)
              /\ ~(hooks[Len(hooks) + 1 - i].factory # None
                     /\ hook_factory(hooks[Len(hooks) + 1 - i], param) = node)
         THEN Len(hooks) + 1 - i
         ELSE FirstHook_from_the_end(hooks, i + 1, node, param)

RECURSIVE FirstHook_giving_up_on_self(_, _, _, _)
\* A loop that ends, with no hook, at a hook that resolves to the node.
FirstHook_giving_up_on_self(hooks, i, node, param) ==
    IF i > Len(hooks) THEN 0
    ELSE IF predicate(hooks[i], param)
         THEN IF hooks[i].factory # None /\ hook_factory(hooks[i], param) = node
              THEN 0
              ELSE i
         ELSE FirstHook_giving_up_on_self(hooks, i + 1, node, param)

RECURSIVE FirstHook(_, _, _, _)
\* The index of the hook the inner loop breaks at for param of node, from
\* index i on; 0 when the loop runs out (the for-else branch).  A hook that
\* resolves to the node itself is passed over.
FirstHook(hooks, i, node, param) ==
    IF i > Len(hooks) THEN 0
    ELSE IF predicate(hooks[i], param)
              /\ ~(hooks[i].factory # None /\ hook_factory(hooks[i], param) = node)
         THEN i
         ELSE FirstHook(hooks, i + 1, node, param)

RECURSIVE ProcessParams_queueing_every_ctx_manager(_, _, _, _, _, _)
\* A loop that enqueues a context manager at every match, seen or not.
ProcessParams_queueing_every_ctx_manager(params, i, node, fn, hooks, st) ==
    IF i > Len(params) THEN st
    ELSE LET param == params[i]
             own == ParameterDep(param.name, param.type, param.default)
             \* h is the hook the inner loop broke at.
             resolved(h) ==
                 IF h = 0 \/ hooks[h].factory = None
                 THEN ProcessParams_queueing_every_ctx_manager(params, i + 1, node, fn, hooks,
                          [st EXCEPT !.dependents = Append(@, own)])
                 ELSE LET factory == hook_factory(hooks[h], param)
                          kind == hooks[h].is_ctx_manager
                          fresh == factory \notin st.already \/ kind # None
                      IN  ProcessParams_queueing_every_ctx_manager(params, i + 1, node, fn, hooks,
                              [to_process |-> IF fresh
                                              THEN Append(st.to_process, Forced(factory, kind))
                                              ELSE st.to_process,
                               already |-> st.already \cup {factory},
                               dependents |-> Append(st.dependents,
                                                     FactoryDep(factory, param.name, kind))])
         IN  IF node # fn /\ param.default # Empty /\ param.kind = KO
             THEN ProcessParams_queueing_every_ctx_manager(params, i + 1, node, fn, hooks, st)
             ELSE resolved(FirstHook(hooks, 1, node, param))

RECURSIVE ProcessParams(_, _, _, _, _, _)
\* The loop over sig.parameters of one node.  st holds to_process,
\* already_processed_hooks and the dependents gathered so far.
ProcessParams(params, i, node, fn, hooks, st) ==
    IF i > Len(params) THEN st
    ELSE LET param == params[i]
             own == ParameterDep(param.name, param.type, param.default)
             \* h is the hook the inner loop broke at.
             resolved(h) ==
                 IF h = 0 \/ hooks[h].factory = None
                 THEN ProcessParams(params, i + 1, node, fn, hooks,
                          [st EXCEPT !.dependents = Append(@, own)])
                 ELSE LET factory == hook_factory(hooks[h], param)
                          kind == hooks[h].is_ctx_manager
                          fresh == factory \notin st.already
                      IN  ProcessParams(params, i + 1, node, fn, hooks,
                              [to_process |-> IF fresh
                                              THEN Append(st.to_process, Forced(factory, kind))
                                              ELSE st.to_process,
                               already |-> st.already \cup {factory},
                               dependents |-> Append(st.dependents,
                                                     FactoryDep(factory, param.name, kind))])
         IN  IF node # fn /\ param.default # Empty /\ param.kind = KO
             THEN ProcessParams(params, i + 1, node, fn, hooks, st)
             ELSE resolved(FirstHook(hooks, 1, node, param))

RECURSIVE ProcessNodes(_, _, _, _, _)
\* One pass of the while loop: every node of _nodes in turn.  st holds
\* to_process, already_processed_hooks and final_nodes.
ProcessNodes(nodes, i, fn, hooks, st) ==
    IF i > Len(nodes) THEN st
    ELSE LET node == nodes[i].factory
             \* r is the state after the parameters of node.
             inserted(r) ==
                 ProcessNodes(nodes, i + 1, fn, hooks,
                     [to_process |-> r.to_process, already |-> r.already,
                      final_nodes |-> <<Node(node, nodes[i].ctx_mgr_kind, r.dependents)>>
                                        \o st.final_nodes])
         IN  inserted(ProcessParams(_signature(node), 1, node, fn, hooks,
                          [to_process |-> st.to_process, already |-> st.already,
                           dependents |-> <<>>]))

RECURSIVE ProcessAll(_, _, _, _, _)
\* The while loop over to_process.
ProcessAll(to_process, fn, hooks, already, final_nodes) ==
    IF to_process = <<>> THEN final_nodes
    ELSE LET again(r) == ProcessAll(r.to_process, fn, hooks, r.already, r.final_nodes)
         IN  again(ProcessNodes(to_process, 1, fn, hooks,
                       [to_process |-> <<>>, already |-> already,
                        final_nodes |-> final_nodes]))

RECURSIVE InsertByLen(_, _)
\* list.sort is stable: n goes after every node with at most as many deps.
InsertByLen(sorted, n) ==
    IF sorted = <<>> THEN <<n>>
    ELSE IF Len(sorted[Len(sorted)].deps) <= Len(n.deps)
         THEN Append(sorted, n)
         ELSE Append(InsertByLen(SubSeq(sorted, 1, Len(sorted) - 1), n),
                     sorted[Len(sorted)])

RECURSIVE SortByLen(_)
SortByLen(nodes) ==
    IF nodes = <<>> THEN <<>>
    ELSE InsertByLen(SortByLen(SubSeq(nodes, 1, Len(nodes) - 1)), nodes[Len(nodes)])

\* A builder that sorts the whole node list, the target with the rest.
_gen_dep_tree_sorting_all(registry, fn, additional_hooks, forced_deps) ==
    SortByLen(ProcessAll(<<Forced(fn, None)>> \o forced_deps, fn,
                         additional_hooks \o registry, {}, <<>>))

\* A builder that consults the registry before the extra hooks.
_gen_dep_tree_registry_first(registry, fn, additional_hooks, forced_deps) ==
    LET sorted(final_nodes) ==
            Append(SortByLen(SubSeq(final_nodes, 1, Len(final_nodes) - 1)),
                   final_nodes[Len(final_nodes)])
    IN  sorted(ProcessAll(<<Forced(fn, None)>> \o forced_deps, fn,
                          registry \o additional_hooks, {}, <<>>))

_gen_dep_tree(registry, fn, additional_hooks, forced_deps) ==
    LET \* All but the last node sorted, the last node left where it is.
        sorted(final_nodes) ==
            Append(SortByLen(SubSeq(final_nodes, 1, Len(final_nodes) - 1)),
                   final_nodes[Len(final_nodes)])
    IN  sorted(ProcessAll(<<Forced(fn, None)>> \o forced_deps, fn,
                          additional_hooks \o registry, {}, <<>>))

(***************************************************************************)
(* Generated code.  An expression is an outer argument name, a local      *)
(* _incant_local_<ix>, or a call (an inlined invocation).  A line is an    *)
(* assignment or bare call of a factory, or a with block on it; slot is   *)
(* the number of the local it binds, -1 when it binds none.                *)
(***************************************************************************)
NameExpr(name) == [tag |-> "name", name |-> name, ix |-> -1, aw |-> FALSE, args |-> <<>>]
LocalExpr(ix) == [tag |-> "local", name |-> "", ix |-> ix, aw |-> FALSE, args |-> <<>>]
CallExpr(aw, factory, args) ==
    [tag |-> "call", name |-> factory, ix |-> -1, aw |-> aw, args |-> args]

Line(kind, aw, factory, args, slot) ==
    [kind |-> kind, aw |-> aw, factory |-> factory, args |-> args, slot |-> slot]

Invocation(factory, args, is_forced, is_ctx_manager) ==
    [factory |-> factory, args |-> args, is_forced |-> is_forced,
     is_ctx_manager |-> is_ctx_manager]

Error(kind, about) == [tag |-> "error", error |-> kind, about |-> about]
IsError(r) == r.tag = "error"
IsRoutine(r) == r.tag = "routine"

\* compose returned the callable fn itself.
Callable(fn) == [tag |-> "callable", fn |-> fn]

RECURSIVE SeqSum(_)
SeqSum(s) == IF s = <<>> THEN 0 ELSE s[1] + SeqSum(Tail(s))

\* The factories among the args of an invocation, in order.
FactoryArgs(args) ==
    LET F[i \in 0..Len(args)] ==
            IF i = 0 THEN <<>>
            ELSE IF args[i].tag = "factory" THEN Append(F[i - 1], args[i].factory)
                 ELSE F[i - 1]
    IN  F[Len(args)]

CountIn(f, s) == Cardinality({i \in DOMAIN s : s[i] = f})

RECURSIVE AnyAwait(_)
\* Does the expression hold an await?
AnyAwait(e) ==
    e.tag = "call" /\ (e.aw \/ \E i \in DOMAIN e.args : AnyAwait(e.args[i]))

(***************************************************************************)
(* compile_invoke                                                          *)
(***************************************************************************)
\* local_vars_ix_by_factory: a dict comprehension, the last index wins.
local_vars_ix_by_factory(invocations, factory) ==
    LET ixs == {i \in DOMAIN invocations : invocations[i].factory = factory}
    IN  IF ixs = {} THEN -1
        ELSE (CHOOSE i \in ixs : \A j \in ixs : j <= i) - 1

\* factory_fns: the Counter over fn_args and the args of the invocations
\* that are no context managers.
factory_fns(fn_args, invocations, factory) ==
    CountIn(factory, fn_args)
    + SeqSum([i \in DOMAIN invocations |->
                IF invocations[i].is_ctx_manager # None THEN 0
                ELSE CountIn(factory, FactoryArgs(invocations[i].args))])

inlineable(fn_args, invocations, factory) ==
    factory_fns(fn_args, invocations, factory) = 1

\* The source text of one argument: local_arg_lines / incant_arg_lines.
\* KeyError stands for a failed lookup in local_vars_ix_by_factory.
ArgExpr(factory, inline_exprs, invocations) ==
    IF factory \in DOMAIN inline_exprs THEN inline_exprs[factory]
    ELSE LocalExpr(local_vars_ix_by_factory(invocations, factory))

LocalArgLines(args, inline_exprs, invocations) ==
    [k \in DOMAIN args |->
        IF args[k].tag = "param" THEN NameExpr(args[k].arg_name)
        ELSE ArgExpr(args[k].factory, inline_exprs, invocations)]

RECURSIVE CompileInvocations(_, _, _, _)
\* The loop over the invocations.  st holds inline_exprs_by_factory,
\* local_counter and the lines written so far.
CompileInvocations(invocations, i, fn_args, st) ==
    IF i > Len(invocations) THEN st
    ELSE LET invoc == invocations[i]
             local_arg_lines == LocalArgLines(invoc.args, st.inline_exprs, invocations)
             bound == IF invoc.is_forced THEN -1 ELSE st.local_counter
             counter == IF invoc.is_forced THEN st.local_counter
                        ELSE st.local_counter + 1
         IN  IF inlineable(fn_args, invocations, invoc.factory)
                  /\ invoc.is_ctx_manager = None
             THEN CompileInvocations(invocations, i + 1, fn_args,
                      [st EXCEPT !.inline_exprs =
                          [f \in DOMAIN @ \cup {invoc.factory} |->
                              IF f = invoc.factory
                              THEN CallExpr(iscoroutinefunction(invoc.factory),
                                            invoc.factory, local_arg_lines)
                              ELSE @[f]]])
             ELSE IF invoc.is_ctx_manager # None
             THEN CompileInvocations(invocations, i + 1, fn_args,
                      [st EXCEPT !.local_counter = counter,
                                 !.lines = Append(@, Line("with",
                                     invoc.is_ctx_manager = "async",
                                     invoc.factory, local_arg_lines, bound))])
             ELSE CompileInvocations(invocations, i + 1, fn_args,
                      [st EXCEPT !.local_counter = counter,
                                 !.lines = Append(@, Line("call",
                                     iscoroutinefunction(invoc.factory),
                                     invoc.factory, local_arg_lines, bound))])

RECURSIVE IncantArgLines(_, _, _, _, _, _, _)
\* The arguments of the final call of fn, one per parameter of fn.
IncantArgLines(params, i, cnt, fn_args, fn_factory_args, outer_arg_names, st) ==
    IF i > Len(params) THEN <<>>
    ELSE LET name == params[i].name
         IN  IF (\A k \in DOMAIN fn_factory_args : fn_factory_args[k] # name)
                  /\ name \in outer_arg_names
             THEN <<NameExpr(name)>>
                  \o IncantArgLines(params, i + 1, cnt, fn_args, fn_factory_args,
                                    outer_arg_names, st)
             ELSE <<IF cnt + 1 > Len(fn_args) THEN NameExpr("IndexError")
                    ELSE ArgExpr(fn_args[cnt + 1], st.inline_exprs, st.invocations)>>
                  \o IncantArgLines(params, i + 1, cnt + 1, fn_args, fn_factory_args,
                                    outer_arg_names, st)

compile_invoke(fn, fn_args, fn_factory_args, outer_args, invocations, is_async) ==
    LET outer_arg_names == {outer_args[k].arg_name : k \in DOMAIN outer_args}
        aw == iscoroutinefunction(fn)
        keyerror(args) == \E a \in DOMAIN args : args[a] = LocalExpr(-1)
        \* lines are the lines of the invocations, incant_arg_lines the
        \* arguments of the final call.
        compiled(lines, incant_arg_lines) ==
            LET awaits ==
                    \/ aw
                    \/ \E k \in DOMAIN lines :
                          \/ lines[k].aw
                          \/ \E a \in DOMAIN lines[k].args : AnyAwait(lines[k].args[a])
                    \/ \E a \in DOMAIN incant_arg_lines : AnyAwait(incant_arg_lines[a])
            IN  IF \E a \in DOMAIN incant_arg_lines :
                      incant_arg_lines[a] = NameExpr("IndexError")
                THEN Error("IndexError", <<fn>>)
                ELSE IF keyerror(incant_arg_lines)
                           \/ \E k \in DOMAIN lines : keyerror(lines[k].args)
                THEN Error("KeyError", <<fn>>)
                ELSE IF ~is_async /\ awaits
                THEN \* compile() rejects await and async with in a plain def.
                     Error("SyntaxError", <<fn>>)
                ELSE [tag |-> "routine", fn |-> fn, is_async |-> is_async,
                      outer_args |-> outer_args, lines |-> lines,
                      ret_aw |-> aw, ret_args |-> incant_arg_lines,
                      return_annotation |-> return_annotation(fn)]
        \* st is the state after the loop over the invocations.
        returning(st) ==
            compiled(st.lines,
                     IncantArgLines(signature(fn), 1, 0, fn_args, fn_factory_args,
                                    outer_arg_names,
                                    [inline_exprs |-> st.inline_exprs,
                                     invocations |-> invocations]))
    IN  returning(CompileInvocations(invocations, 1, fn_args,
                      [inline_exprs |-> <<>>, local_counter |-> 0, lines |-> <<>>]))

(***************************************************************************)
(* _gen_call                                                               *)
(***************************************************************************)
True == "True"
False == "False"

\* A reconciliation that lets the later of two different types win.
_reconcile_types_lenient(type_a, type_b) ==
    IF type_b = Empty THEN type_a ELSE type_b

_reconcile_types(type_a, type_b) ==
    IF type_a = Empty THEN type_b
    ELSE IF type_b = Empty THEN type_a
    ELSE IF type_a = type_b THEN type_a
    ELSE "Exception"

RECURSIVE Flatten(_)
Flatten(ss) == IF ss = <<>> THEN <<>> ELSE ss[1] \o Flatten(Tail(ss))

SelectParams(deps) == SelectSeq(deps, LAMBDA d : d.tag = "param")

\* The keys of per_outer_arg in insertion order.
RECURSIVE FirstNames(_, _)
FirstNames(args, seen) ==
    IF args = <<>> THEN <<>>
    ELSE IF args[1].arg_name \in seen THEN FirstNames(Tail(args), seen)
         ELSE <<args[1].arg_name>> \o FirstNames(Tail(args), seen \cup {args[1].arg_name})

\* Taking the first of the competing definitions as it is.
Consolidate_first_occurrence(arg_name, outer_args) ==
    LET args == SelectSeq(outer_args, LAMBDA a : a.arg_name = arg_name)
    IN  [arg_name |-> arg_name, type |-> args[1].type,
         default |-> args[1].default, conflict |-> <<>>]

RECURSIVE ReconcileAll_first_default(_, _, _)
\* A loop in which the first default found stays.
ReconcileAll_first_default(args, i, acc) ==
    IF i > Len(args) \/ acc.conflict # <<>> THEN acc
    ELSE LET t == _reconcile_types(acc.type, args[i].type)
         IN  IF t = "Exception"
             THEN [acc EXCEPT !.conflict = <<acc.type, args[i].type>>]
             ELSE ReconcileAll_first_default(args, i + 1,
                      [acc EXCEPT !.type = t,
                                  !.default = IF @ = Empty THEN args[i].default ELSE @])

RECURSIVE ReconcileAll(_, _, _)
\* The loop over the competing definitions of one argument.  acc holds the
\* type and default picked so far and, once _reconcile_types raised, the
\* two types of the conflict.
ReconcileAll(args, i, acc) ==
    IF i > Len(args) \/ acc.conflict # <<>> THEN acc
    ELSE LET t == _reconcile_types(acc.type, args[i].type)
         IN  IF t = "Exception"
             THEN [acc EXCEPT !.conflict = <<acc.type, args[i].type>>]
             ELSE ReconcileAll(args, i + 1,
                      [acc EXCEPT !.type = t,
                                  !.default = IF args[i].default # Empty
                                              THEN args[i].default ELSE @])

\* The consolidated type and default of arg_name.
Consolidate(arg_name, outer_args) ==
    LET args == SelectSeq(outer_args, LAMBDA a : a.arg_name = arg_name)
    IN  IF Len(args) = 1
        THEN [arg_name |-> arg_name, type |-> args[1].type,
              default |-> args[1].default, conflict |-> <<>>]
        ELSE ReconcileAll(args, 1, [arg_name |-> arg_name, type |-> Empty,
                                    default |-> Empty, conflict |-> <<>>])

\* The outer arguments left in the order the dict holds them.
SortByDefault_unsorted(outer_args) == outer_args

\* outer_args.sort(key=lambda a: a.default is not Signature.empty)
SortByDefault(outer_args) ==
    SelectSeq(outer_args, LAMBDA a : a.default = Empty)
    \o SelectSeq(outer_args, LAMBDA a : a.default # Empty)

\* A node that counts as asynchronous by its factory alone.
NeedsAsync_by_factory_only(node) == iscoroutinefunction(node.factory)

\* iscoroutinefunction(factory) or ctx_mgr_kind == "async"
NeedsAsync(node) == iscoroutinefunction(node.factory) \/ node.ctx_mgr_kind = "async"

\* Returning fn for every one-node tree, whatever is_async asks for.
passthrough_in_any_mode(dep_tree, fn, is_async) == Len(dep_tree) = 1

\* The test that makes _gen_call return fn itself.
passthrough(dep_tree, fn, is_async) ==
    /\ Len(dep_tree) = 1
    /\ (is_async = None \/ (is_async = True) = iscoroutinefunction(fn))

\* Is the factory of dep_tree[ix] a FactoryDep of a node after it?
is_needed(dep_tree, ix) ==
    \E j \in (ix + 1)..Len(dep_tree) :
        \E k \in DOMAIN dep_tree[j].deps :
            /\ dep_tree[j].deps[k].tag = "factory"
            /\ dep_tree[j].deps[k].factory = dep_tree[ix].factory

_gen_call(registry, fn, hooks, is_async, forced_deps) ==
    LET \* The outer arguments: merged holds, per name, the consolidated
        \* definition or the conflict, fn_deps the FactoryDeps of fn.
        outer(dep_tree, async, invocs, merged, fn_deps) ==
            LET failed == {k \in DOMAIN merged : merged[k].conflict # <<>>}
                outer_args == SortByDefault([k \in DOMAIN merged |->
                                  ParameterDep(merged[k].arg_name, merged[k].type,
                                               merged[k].default)])
                fn_factory_args == [k \in DOMAIN fn_deps |-> fn_deps[k].arg_name]
                fn_factories == [k \in DOMAIN fn_deps |-> fn_deps[k].factory]
            IN  IF failed # {}
                THEN LET k == CHOOSE k \in failed : \A j \in failed : k <= j
                     IN  Error("IncantError", <<merged[k].arg_name>> \o merged[k].conflict)
                ELSE compile_invoke(fn, fn_factories, fn_factory_args, outer_args,
                                    invocs, async)
        \* The competing definitions of every outer argument, by name.
        consolidated(all_outer, names) ==
            [k \in DOMAIN names |-> Consolidate(names[k], all_outer)]
        collected(dep_tree, async, invocs, all_outer) ==
            outer(dep_tree, async, invocs,
                  consolidated(all_outer, FirstNames(all_outer, {})),
                  SelectSeq(dep_tree[Len(dep_tree)].deps, LAMBDA d : d.tag = "factory"))
        planned(dep_tree, async) ==
            LET n == Len(dep_tree)
                offending == {ix \in 1..(n - 1) : ~async /\ NeedsAsync(dep_tree[ix])}
            IN  IF offending # {}
                THEN Error("TypeError",
                           <<dep_tree[CHOOSE ix \in offending :
                                         \A j \in offending : ix <= j].factory>>)
                ELSE collected(dep_tree, async,
                         [ix \in 1..(n - 1) |->
                             Invocation(dep_tree[ix].factory, dep_tree[ix].deps,
                                        ~is_needed(dep_tree, ix), dep_tree[ix].ctx_mgr_kind)],
                         Flatten([k \in 1..n |-> SelectParams(dep_tree[k].deps)]))
        generated(dep_tree) ==
            IF passthrough(dep_tree, fn, is_async)
            THEN Callable(fn)
            ELSE planned(dep_tree,
                         IF is_async = None
                         THEN \E k \in DOMAIN dep_tree : NeedsAsync(dep_tree[k])
                         ELSE is_async = True)
    IN  generated(_gen_dep_tree(registry, fn, hooks, forced_deps))

(***************************************************************************)
(* Running a generated routine.  The run is the sequence of the events    *)
(* the callables see: a call of a factory or of fn with the values passed, *)
(* the enter and the exit of a context manager.  A value is the caller's  *)
(* value of an outer argument or the result of a factory.  fail names the *)
(* callable that raises, and whether on its call or on its enter.          *)
(***************************************************************************)
OuterValue(name) == [src |-> "outer", of |-> name]
ResultOf(factory) == [src |-> "result", of |-> factory]

\* line is the line of the generated body that is running, counted from 1.
Event(ev, f, args, line) == [ev |-> ev, f |-> f, args |-> args, line |-> line]

NoFail == [f |-> None, at |-> "call"]

\* Calling f with vals in state st.
DoCall(f, vals, st, fail) ==
    [st EXCEPT !.trace = Append(@, Event("call", f, vals, st.line)),
               !.err = IF fail.f = f /\ fail.at = "call" THEN "Error" ELSE @,
               !.val = ResultOf(f)]

RECURSIVE EvalExpr(_, _, _)
RECURSIVE EvalArgs(_, _, _, _)

\* Evaluating one expression of the generated code: st.val is its value.
EvalExpr(e, st, fail) ==
    CASE e.tag = "name" -> [st EXCEPT !.val = OuterValue(e.name)]
      [] e.tag = "local" ->
            IF e.ix \in DOMAIN st.slots THEN [st EXCEPT !.val = st.slots[e.ix]]
            ELSE [st EXCEPT !.err = "NameError"]
      [] OTHER ->
            LET called(s1) == IF s1.err # "" THEN s1 ELSE DoCall(e.name, s1.vals, s1, fail)
            IN  called(EvalArgs(e.args, 1, [st EXCEPT !.vals = <<>>], fail))

\* Evaluating the arguments of a call left to right: st.vals are their values.
EvalArgs(args, i, st, fail) ==
    IF i > Len(args) \/ st.err # "" THEN st
    ELSE LET passed(s1) ==
                 EvalArgs(args, i + 1, [s1 EXCEPT !.vals = Append(st.vals, s1.val)], fail)
         IN  passed(EvalExpr(args[i], st, fail))

Bind(st, slot) ==
    IF slot < 0 THEN st
    ELSE [st EXCEPT !.slots = [k \in DOMAIN @ \cup {slot} |->
                                  IF k = slot THEN st.val ELSE @[k]]]

RECURSIVE RunLines_without_exit_on_error(_, _, _, _)
\* A body whose with blocks exit on a normal return only.
RunLines_without_exit_on_error(plan, i, st, fail) ==
    IF i > Len(plan.lines)
    THEN LET s1 == EvalArgs(plan.ret_args, 1, [st EXCEPT !.vals = <<>>, !.line = i], fail)
         IN  IF s1.err # "" THEN s1 ELSE DoCall(plan.fn, s1.vals, s1, fail)
    ELSE LET line == plan.lines[i]
             s1 == EvalArgs(line.args, 1, [st EXCEPT !.vals = <<>>, !.line = i], fail)
             s2 == DoCall(line.factory, s1.vals, s1, fail)
         IN  IF s1.err # "" THEN s1
             ELSE IF s2.err # "" THEN s2
             ELSE IF line.kind = "call"
             THEN RunLines_without_exit_on_error(plan, i + 1, Bind(s2, line.slot), fail)
             ELSE LET s3 == [s2 EXCEPT !.trace = Append(@, Event("enter", line.factory, <<>>, i)),
                                       !.err = IF fail.f = line.factory /\ fail.at = "enter"
                                               THEN "Error" ELSE @]
                      s4 == RunLines_without_exit_on_error(plan, i + 1,
                                                           Bind(s3, line.slot), fail)
                  IN  IF s3.err # "" THEN s3
                      ELSE IF s4.err # "" THEN s4
                      ELSE [s4 EXCEPT !.trace =
                                           Append(@, Event("exit", line.factory, <<>>, i))]

RECURSIVE RunLines_with_empty_blocks(_, _, _, _)
\* A body whose with blocks hold nothing: the lines after a with line run
\* once the block has exited.
RunLines_with_empty_blocks(plan, i, st, fail) ==
    IF i > Len(plan.lines)
    THEN LET s1 == EvalArgs(plan.ret_args, 1, [st EXCEPT !.vals = <<>>, !.line = i], fail)
         IN  IF s1.err # "" THEN s1 ELSE DoCall(plan.fn, s1.vals, s1, fail)
    ELSE LET line == plan.lines[i]
             s1 == EvalArgs(line.args, 1, [st EXCEPT !.vals = <<>>, !.line = i], fail)
             s2 == DoCall(line.factory, s1.vals, s1, fail)
         IN  IF s1.err # "" THEN s1
             ELSE IF s2.err # "" THEN s2
             ELSE IF line.kind = "call"
             THEN RunLines_with_empty_blocks(plan, i + 1, Bind(s2, line.slot), fail)
             ELSE LET s3 == [s2 EXCEPT !.trace = Append(@, Event("enter", line.factory, <<>>, i)),
                                       !.err = IF fail.f = line.factory /\ fail.at = "enter"
                                               THEN "Error" ELSE @]
                      s4 == [s3 EXCEPT !.trace =
                                           Append(@, Event("exit", line.factory, <<>>, i))]
                  IN  IF s3.err # "" THEN s3
                      ELSE RunLines_with_empty_blocks(plan, i + 1, Bind(s4, line.slot), fail)

RECURSIVE RunLines(_, _, _, _)
\* The body of the generated function from line i on; every with block
\* holds all the lines after it.
RunLines(plan, i, st, fail) ==
    IF i > Len(plan.lines)
    THEN LET returned(s1) == IF s1.err # "" THEN s1 ELSE DoCall(plan.fn, s1.vals, s1, fail)
         IN  returned(EvalArgs(plan.ret_args, 1,
                               [st EXCEPT !.vals = <<>>, !.line = i], fail))
    ELSE LET line == plan.lines[i]
             \* s3 is the state after __enter__, s2 after the call of the
             \* factory, s1 after the evaluation of its arguments.
             entered(s3) ==
                 IF s3.err # "" THEN s3
                 ELSE [RunLines(plan, i + 1, Bind(s3, line.slot), fail)
                          EXCEPT !.trace = Append(@, Event("exit", line.factory, <<>>, i))]
             called(s2) ==
                 IF s2.err # "" THEN s2
                 ELSE IF line.kind = "call"
                 THEN RunLines(plan, i + 1, Bind(s2, line.slot), fail)
                 ELSE entered([s2 EXCEPT
                          !.trace = Append(@, Event("enter", line.factory, <<>>, i)),
                          !.err = IF fail.f = line.factory /\ fail.at = "enter"
                                  THEN "Error" ELSE @])
             evaluated(s1) ==
                 IF s1.err # "" THEN s1
                 ELSE called(DoCall(line.factory, s1.vals, s1, fail))
         IN  evaluated(EvalArgs(line.args, 1,
                                [st EXCEPT !.vals = <<>>, !.line = i], fail))

StartState == [trace |-> <<>>, slots |-> <<>>, err |-> "", val |-> OuterValue(""),
               vals |-> <<>>, line |-> 1]

\* Calling what compose returned, with a value for every outer argument.
Run(routine, fail) ==
    LET ran(s) == [events |-> s.trace, err |-> s.err]
    IN  ran(IF routine.tag = "callable"
            THEN DoCall(routine.fn,
                        [k \in DOMAIN signature(routine.fn) |->
                            OuterValue(signature(routine.fn)[k].name)],
                        StartState, fail)
            ELSE RunLines(routine, 1, StartState, fail))

(***************************************************************************)
(* The Incanter: its operations on the registry and the two caches.  op   *)
(* records the last operation, ret what it returned or raised, trace the  *)
(* last run of a routine.                                                  *)
(***************************************************************************)
NoReturn == [tag |-> "none"]
NoTrace == [events |-> <<>>, err |-> "", fail |-> NoFail]
Op(name, key, hit) == [name |-> name, key |-> key, hit |-> hit]

\* A key in which an unspecified is_async stands for False.
Key_unspecified_as_false(fn, hooks, is_async, forced_deps) ==
    <<fn, hooks, IF is_async = None THEN False ELSE is_async, forced_deps>>

Key(fn, hooks, is_async, forced_deps) == <<fn, hooks, is_async, forced_deps>>

CacheGet(cache, key) == {e \in cache : e.key = key}

\* lru_cache(None)(self._gen_call): a hit returns the stored routine, a miss
\* builds and stores it; a raised error stores nothing.
\* A cache that stores what the build raised like what it returned.
_call_cache_storing_errors(fn, hooks, is_async, forced_deps) ==
    LET key == Key(fn, hooks, is_async, forced_deps)
        hits == CacheGet(call_cache, key)
        miss(built) ==
            [val |-> built, cache |-> call_cache \cup {[key |-> key, val |-> built]},
             hit |-> FALSE]
    IN  IF hits # {}
        THEN [val |-> (CHOOSE e \in hits : TRUE).val, cache |-> call_cache, hit |-> TRUE]
        ELSE miss(_gen_call(hook_factory_registry, fn, hooks, is_async, forced_deps))

_call_cache(fn, hooks, is_async, forced_deps) ==
    LET key == Key(fn, hooks, is_async, forced_deps)
        hits == CacheGet(call_cache, key)
        miss(built) ==
            IF IsError(built)
            THEN [val |-> built, cache |-> call_cache, hit |-> FALSE]
            ELSE [val |-> built, cache |-> call_cache \cup {[key |-> key, val |-> built]},
                  hit |-> FALSE]
    IN  IF hits # {}
        THEN [val |-> (CHOOSE e \in hits : TRUE).val, cache |-> call_cache, hit |-> TRUE]
        ELSE miss(_gen_call(hook_factory_registry, fn, hooks, is_async, forced_deps))

compose(fn, hooks, is_async, forced_deps) ==
    LET returned(r) ==
            /\ Cardinality(r.cache) <= MaxCache
            /\ call_cache' = r.cache
            /\ ret' = r.val
            /\ op' = Op("compose", Key(fn, hooks, is_async, forced_deps), r.hit)
            /\ trace' = NoTrace
            /\ UNCHANGED <<hook_factory_registry, incant_cache>>
    IN  returned(_call_cache(fn, hooks, is_async, forced_deps))

\* The callables a run of the routine reaches, each a candidate to raise.
FailChoices(routine) ==
    LET reached(events) ==
            {NoFail} \cup {[f |-> events[k].f, at |-> events[k].ev] :
                              k \in {j \in DOMAIN events : events[j].ev # "exit"}}
    IN  reached(Run(routine, NoFail).events)

\* Calling the routine the last compose returned.
call ==
    /\ ret.tag \in {"routine", "callable"}
    /\ \E fail \in FailChoices(ret) :
          LET ran(r) == trace' = [events |-> r.events, err |-> r.err, fail |-> fail]
          IN  ran(Run(ret, fail))
    /\ op' = Op("call", op.key, FALSE)
    /\ UNCHANGED <<hook_factory_registry, call_cache, incant_cache, ret>>

compose_and_call(fn, is_async) ==
    LET ran(t) == trace' = [events |-> t.events, err |-> t.err, fail |-> NoFail]
        composed(r) ==
            /\ Cardinality(r.cache) <= MaxCache
            /\ call_cache' = r.cache
            /\ ret' = r.val
            /\ op' = Op("compose_and_call", Key(fn, <<>>, is_async, <<>>), r.hit)
            /\ IF IsError(r.val) THEN trace' = NoTrace ELSE ran(Run(r.val, NoFail))
            /\ UNCHANGED <<hook_factory_registry, incant_cache>>
    IN  composed(_call_cache(fn, <<>>, is_async, <<>>))

\* A registration that leaves the two caches as they are.
register_hook_factory_keeping_caches(pred, provider, is_ctx_manager) ==
    /\ Len(hook_factory_registry) < MaxHooks
    /\ hook_factory_registry' =
           <<Hook(pred, provider, is_ctx_manager)>> \o hook_factory_registry
    /\ ret' = NoReturn
    /\ op' = Op("register", <<>>, FALSE)
    /\ trace' = NoTrace
    /\ UNCHANGED <<call_cache, incant_cache>>

register_hook_factory(pred, provider, is_ctx_manager) ==
    /\ Len(hook_factory_registry) < MaxHooks
    /\ hook_factory_registry' =
           <<Hook(pred, provider, is_ctx_manager)>> \o hook_factory_registry
    /\ call_cache' = {}
    /\ incant_cache' = {}
    /\ ret' = NoReturn
    /\ op' = Op("register", <<>>, FALSE)
    /\ trace' = NoTrace

register_hook(pred, factory, is_ctx_manager) ==
    register_hook_factory(pred, factory, is_ctx_manager)

register_by_name(fn, name, is_ctx_manager) ==
    register_hook(ByName(IF name = None THEN fn ELSE name), fn, is_ctx_manager)

\* A registration by type that takes whatever return annotation it finds.
register_by_type_unchecked(fn, type, is_ctx_manager) ==
    register_hook(ByType(IF type # None THEN type
                         ELSE IF isclass(fn) THEN fn ELSE return_annotation(fn)),
                  fn, is_ctx_manager)

register_by_type(fn, type, is_ctx_manager) ==
    LET type_to_reg == IF type # None THEN type
                       ELSE IF isclass(fn) THEN fn ELSE return_annotation(fn)
    IN  IF type_to_reg = Empty
        THEN /\ ret' = Error("IncantError", <<fn>>)
             /\ op' = Op("register", <<>>, FALSE)
             /\ trace' = NoTrace
             /\ UNCHANGED <<hook_factory_registry, call_cache, incant_cache>>
        ELSE register_hook(ByType(type_to_reg), fn, is_ctx_manager)

(***************************************************************************)
(* The direct-call mode: _incant, _gen_incant_plan, compile_incant_wrapper.*)
(* A positional argument is known by its runtime class, a keyword         *)
(* argument by its name and runtime class.                                 *)
(***************************************************************************)
\* lambda p, c=a.__class__: is_subclass(c, p.annotation)
class_pred(c, p) == is_subclass(c, p.type)

KwNames(kwargs) == {kw[1] : kw \in kwargs}

RECURSIVE _gen_incant_plan(_, _, _, _)
\* The plan for the parameters from index i on: a positional index or a
\* parameter name per parameter passed; <<"TypeError", name>> when a
\* parameter cannot be fulfilled.
_gen_incant_plan(params, i, pos_args, kwargs) ==
    IF i > Len(params) THEN <<>>
    ELSE LET arg == params[i]
             rest == _gen_incant_plan(params, i + 1, pos_args, kwargs)
             by_pos == {ix \in DOMAIN pos_args : class_pred(pos_args[ix], arg)}
             step(entry) == IF rest # <<>> /\ rest[1] = "TypeError" THEN rest
                            ELSE entry \o rest
         IN  IF \E kw \in kwargs : class_pred(kw[2], arg)
             THEN step(<<arg.name>>)
             ELSE IF arg.type # Empty /\ by_pos # {}
             THEN step(<<ToString((CHOOSE ix \in by_pos : \A j \in by_pos : ix <= j) - 1)>>)
             ELSE IF arg.name \in KwNames(kwargs) THEN step(<<arg.name>>)
             ELSE IF arg.default # Empty THEN rest
             ELSE <<"TypeError", arg.name>>

IsIndex(entry) == entry \in {ToString(k) : k \in 0..3}

\* The wrapper compile_incant_wrapper generates for the plan.
compile_incant_wrapper(fn, incant_plan, num_pos_args, num_kwargs) ==
    LET kwargs == SelectSeq(incant_plan, LAMBDA a : ~IsIndex(a))
    IN  [tag |-> "wrapper", fn |-> fn, star_args |-> num_pos_args # 0,
         kwargs |-> kwargs, star_kwargs |-> num_kwargs > Len(kwargs),
         plan |-> incant_plan]

_gen_incant(fn, pos_args, kwargs) ==
    LET wrapped(plan) ==
            IF plan # <<>> /\ plan[1] = "TypeError"
            THEN Error("TypeError", <<plan[2]>>)
            ELSE compile_incant_wrapper(fn, plan, Len(pos_args), Cardinality(kwargs))
    IN  wrapped(_gen_incant_plan(signature(fn), 1, pos_args, kwargs))

\* wrapper(*args, **kwargs): the call binds the keywords to the wrapper's
\* own parameters and passes the planned values on by position.
CallWrapper(wrapper, args, kwargs) ==
    LET named == {wrapper.kwargs[k] : k \in DOMAIN wrapper.kwargs}
        given == KwNames(kwargs)
        vals == [k \in DOMAIN wrapper.plan |->
                    IF IsIndex(wrapper.plan[k])
                    THEN [src |-> "arg", of |-> wrapper.plan[k]]
                    ELSE [src |-> "kwarg", of |-> wrapper.plan[k]]]
    IN  IF ~(named \subseteq given) \/ (~wrapper.star_kwargs /\ ~(given \subseteq named))
        THEN [events |-> <<>>, err |-> "TypeError", fail |-> NoFail]
        ELSE [events |-> <<Event("call", wrapper.fn, vals, 1)>>, err |-> "", fail |-> NoFail]

\* The predicates _incant makes are new function objects on every call, so
\* a key that holds one equals no key of an earlier call: nth tells the
\* calls of one shape apart.
IncantKey(fn, pos_args, kwargs) ==
    LET shape == [fn |-> fn, pos_args |-> pos_args, kwargs |-> kwargs]
    IN  [shape |-> shape,
         nth |-> IF pos_args = <<>> /\ kwargs = {} THEN 0
                 ELSE Cardinality({e \in incant_cache : e.key.shape = shape})]

_incant(fn, args, kwargs) ==
    LET \* wrapper is what the cache returns for key, cache the cache after.
        invoked(key, hit, wrapper, cache) ==
            /\ Cardinality(cache) <= MaxIncant
            /\ incant_cache' = cache
            /\ ret' = wrapper
            /\ op' = Op("incant", <<fn, args, kwargs>>, hit)
            /\ trace' = IF IsError(wrapper) THEN NoTrace
                        ELSE CallWrapper(wrapper, args, kwargs)
            /\ UNCHANGED <<hook_factory_registry, call_cache>>
        miss(key, built) ==
            invoked(key, FALSE, built,
                    IF IsError(built) THEN incant_cache
                    ELSE incant_cache \cup {[key |-> key, val |-> built]})
        looked_up(key, hits) ==
            IF hits # {}
            THEN invoked(key, TRUE, (CHOOSE e \in hits : TRUE).val, incant_cache)
            ELSE miss(key, _gen_incant(fn, args, kwargs))
        keyed(key) == looked_up(key, CacheGet(incant_cache, key))
    IN  keyed(IncantKey(fn, args, kwargs))

(***************************************************************************)
(* The life of one Incanter: registrations, compositions through the      *)
(* cache, calls.                                                           *)
(***************************************************************************)
\* The threads that call compose on the Incanter; outside the threaded
\* specification they stay idle.
Threads == 1..MaxThreads
NoObject == [val |-> NoReturn, id |-> 0]
IdleThread == [pc |-> "idle", key |-> <<>>, built |-> FALSE, obj |-> NoObject]
\* The thread that registers while the others compose.
Registrar == 0
AllIdle == [t \in Threads \cup {Registrar} |-> IdleThread]

NameRegs == {<<"dep1", None, None>>}
TypeRegs == {<<"adep", None, None>>, <<"mid", None, None>>, <<"dep2", None, None>>,
             <<"mid", "bool", None>>, <<"Res", None, None>>}
ProviderRegs == {<<ByName("y"), "provide_by_type", None>>}

Targets == {"fn", "afn"}
ExtraHooks == {<<>>, <<for_name("dep1", None)>>}
AsyncFlags == {None, True, False}
ForcedDeps == {<<>>, <<Forced("dep1", None)>>}
\* Extra hooks and forced dependencies of the compose calls of one Incanter.
ComposeArgs == {a \in ExtraHooks \X ForcedDeps : a[1] = <<>> \/ a[2] = <<>>}
\* Direct calls: fn, the classes of args, the names and classes of kwargs.
IncantCalls == {<<"dep1", <<>>, {}>>, <<"afn", <<"bool">>, {}>>}

Init ==
    /\ hook_factory_registry = <<>>
    /\ call_cache = {}
    /\ incant_cache = {}
    /\ op = Op("init", <<>>, FALSE)
    /\ ret = NoReturn
    /\ trace = NoTrace
    /\ threads = AllIdle

RegisterByName ==
    /\ \E r \in NameRegs : register_by_name(r[1], r[2], r[3])
    /\ UNCHANGED threads
RegisterByType ==
    /\ \E r \in TypeRegs : register_by_type(r[1], r[2], r[3])
    /\ UNCHANGED threads
RegisterHookFactory ==
    /\ \E r \in ProviderRegs : register_hook_factory(r[1], r[2], r[3])
    /\ UNCHANGED threads
Compose ==
    /\ \E fn \in Targets, a \in ComposeArgs : compose(fn, a[1], None, a[2])
    /\ UNCHANGED threads
\* invoke on the plain target, ainvoke on the coroutine target.
Invoke == compose_and_call("fn", False) /\ UNCHANGED threads
AInvoke == compose_and_call("afn", True) /\ UNCHANGED threads
Incant ==
    /\ \E c \in IncantCalls : _incant(c[1], c[2], c[3])
    /\ UNCHANGED threads

Next ==
    \/ RegisterByName
    \/ RegisterByType
    \/ RegisterHookFactory
    \/ Compose
    \/ Invoke
    \/ AInvoke
    \/ Incant

Spec == Init /\ [][Next]_vars

(***************************************************************************)
(* One Incanter whose registrations make compositions fail and succeed:    *)
(* the coroutine adep or the context manager cm1 registered for the        *)
(* parameter y, dep1 by its name, the provider for y.                      *)
(***************************************************************************)
FailingRegs == {<<"adep", "y", None>>, <<"cm1", "y", "sync">>, <<"dep1", None, None>>}

RegisterFailing ==
    /\ \E r \in FailingRegs : register_by_name(r[1], r[2], r[3])
    /\ UNCHANGED threads

NextFailing ==
    \/ RegisterFailing
    \/ RegisterHookFactory
    \/ Compose
    \/ Invoke

SpecFailing == Init /\ [][NextFailing]_vars

(***************************************************************************)
(* The direct calls of one Incanter: every call is the first one after     *)
(* the construction or a registration, which empties the cache.            *)
(***************************************************************************)
IncantTargets == {"dep1", "dep2", "mid"}
ArgClasses == {"int", "str", "bool"}
KwargNames == {"dep1", "x", "y"}
\* The runtime classes of up to MaxArgs positional arguments.
ArgShapes == UNION {[1..n -> ArgClasses] : n \in 0..MaxArgs}
\* The names and runtime classes of up to MaxKwargs keyword arguments.
KwargShapes ==
    {kw \in SUBSET (KwargNames \X ArgClasses) :
        /\ Cardinality(kw) <= MaxKwargs
        /\ \A a, b \in kw : a[1] = b[1] => a = b}
DirectCalls == IncantTargets \X ArgShapes \X KwargShapes

DirectCall ==
    /\ \E c \in DirectCalls : incant_cache = {} /\ _incant(c[1], c[2], c[3])
    /\ UNCHANGED threads

NextIncant ==
    \/ RegisterByName
    \/ DirectCall

SpecIncant == Init /\ [][NextIncant]_vars

(***************************************************************************)
(* Threads calling compose on one Incanter.  The cache is                  *)
(* lru_cache(None)(self._gen_call): a call looks its key up, on a miss     *)
(* runs _gen_call with no lock held, then stores what it built under the   *)
(* key and returns it.  A routine is a new function object per build; a    *)
(* passthrough returns the target itself.                                  *)
(***************************************************************************)
ThreadKeys == {Key(fn, <<>>, None, <<>>) : fn \in Targets}

\* The object a build by thread t returns.
ObjectOf(built, t) == [val |-> built, id |-> IF IsRoutine(built) THEN t ELSE 0]

\* compose(fn, hooks, is_async, forced_deps) on thread t, up to the call of
\* the cache.
compose_enter(t, key) ==
    /\ threads[t].pc = "idle"
    /\ threads' = [threads EXCEPT ![t] = [@ EXCEPT !.pc = "lookup", !.key = key]]
    /\ UNCHANGED <<hook_factory_registry, call_cache, incant_cache, op, ret, trace>>

\* The lookup of the key: a hit returns the stored object.
cache_lookup(t) ==
    LET found(hits) ==
            IF hits # {}
            THEN [threads EXCEPT ![t] =
                     [@ EXCEPT !.pc = "done",
                               !.obj = LET e == CHOOSE e \in hits : TRUE
                                       IN  [val |-> e.val, id |-> e.id]]]
            ELSE [threads EXCEPT ![t] = [@ EXCEPT !.pc = "build"]]
    IN  /\ threads[t].pc = "lookup"
        /\ threads' = found(CacheGet(call_cache, threads[t].key))
        /\ UNCHANGED <<hook_factory_registry, call_cache, incant_cache, op, ret, trace>>

\* The build after a miss; an error is raised to the caller.
cache_build(t) ==
    LET built(r) ==
            [threads EXCEPT ![t] =
                [@ EXCEPT !.pc = IF IsError(r) THEN "done" ELSE "store",
                          !.built = TRUE,
                          !.obj = ObjectOf(r, t)]]
        key == threads[t].key
    IN  /\ threads[t].pc = "build"
        /\ threads' = built(_gen_call(hook_factory_registry, key[1], key[2], key[3], key[4]))
        /\ UNCHANGED <<hook_factory_registry, call_cache, incant_cache, op, ret, trace>>

\* The store of the built object under the key, and the return.
cache_store(t) ==
    /\ threads[t].pc = "store"
    /\ call_cache' = {e \in call_cache : e.key # threads[t].key}
                         \cup {[key |-> threads[t].key, val |-> threads[t].obj.val,
                                 id |-> threads[t].obj.id]}
    /\ threads' = [threads EXCEPT ![t] = [@ EXCEPT !.pc = "done"]]
    /\ UNCHANGED <<hook_factory_registry, incant_cache, op, ret, trace>>

\* register_hook_factory on the registrar thread, statement by statement:
\* the insert at the front of the registry,
registry_insert(pred, provider, is_ctx_manager) ==
    /\ threads[Registrar].pc = "idle"
    /\ Len(hook_factory_registry) < MaxHooks
    /\ hook_factory_registry' =
           <<Hook(pred, provider, is_ctx_manager)>> \o hook_factory_registry
    /\ threads' = [threads EXCEPT ![Registrar] = [@ EXCEPT !.pc = "clear_call"]]
    /\ UNCHANGED <<call_cache, incant_cache, op, ret, trace>>

\* self._call_cache.cache_clear(),
call_cache_clear ==
    /\ threads[Registrar].pc = "clear_call"
    /\ call_cache' = {}
    /\ threads' = [threads EXCEPT ![Registrar] = [@ EXCEPT !.pc = "clear_incant"]]
    /\ UNCHANGED <<hook_factory_registry, incant_cache, op, ret, trace>>

\* self._incant_cache.cache_clear() and the return.
incant_cache_clear ==
    /\ threads[Registrar].pc = "clear_incant"
    /\ incant_cache' = {}
    /\ threads' = [threads EXCEPT ![Registrar] = [@ EXCEPT !.pc = "done"]]
    /\ UNCHANGED <<hook_factory_registry, call_cache, op, ret, trace>>

\* The registrations are made before the threads start.
Setup == (threads = AllIdle) /\ RegisterByName
\* register_by_name on the registrar thread.
ThreadRegister ==
    \E r \in NameRegs :
        registry_insert(ByName(IF r[2] = None THEN r[1] ELSE r[2]), r[1], r[3])
ThreadClearCall == call_cache_clear
ThreadClearIncant == incant_cache_clear
ThreadCompose == \E t \in Threads, key \in ThreadKeys : compose_enter(t, key)
ThreadLookup == \E t \in Threads : cache_lookup(t)
ThreadBuild == \E t \in Threads : cache_build(t)
ThreadStore == \E t \in Threads : cache_store(t)

NextThreads ==
    \/ Setup
    \/ ThreadCompose
    \/ ThreadLookup
    \/ ThreadBuild
    \/ ThreadStore
    \/ ThreadRegister
    \/ ThreadClearCall
    \/ ThreadClearIncant

SpecThreads == Init /\ [][NextThreads]_vars

(***************************************************************************)
(* One composition on an Incanter constructed with a hook registry, and   *)
(* the calls of the routine it returns.                                    *)
(***************************************************************************)
HookPool ==
    { Hook(ByName("dep1"), "dep1", None),
      Hook(ByName("dep2"), "dep2", None),
      Hook(ByName("mid"), "mid", None),
      Hook(ByName("top"), "top", None),
      Hook(ByName("y"), "cm1", "sync"),
      Hook(ByName("x"), "cm2", "async"),
      Hook(ByName("y"), "adep", None),
      Hook(ByType("int"), "dep1", None),
      Hook(ByType("int"), "dep2", None),
      Hook(ByName("x"), "top", None) }

RECURSIVE SeqsUpTo(_, _)
SeqsUpTo(S, n) ==
    IF n = 0 THEN {<<>>}
    ELSE LET shorter == SeqsUpTo(S, n - 1)
         IN  shorter \cup {Append(q, x) : q \in shorter, x \in S}

ForcedPool == {Forced("dep1", None), Forced("mid", None), Forced("top", None),
               Forced("cm1", "sync"), Forced("cm2", "sync"), Forced("cm2", "async")}

Call == call /\ UNCHANGED threads

ComposeTargets == {"fn", "fn2", "afn", "ofn"}
ComposeHooks == {<<>>, <<for_name("dep1", None)>>}

InitCompose ==
    /\ hook_factory_registry \in SeqsUpTo(HookPool, MaxWiring)
    /\ call_cache = {}
    /\ incant_cache = {}
    /\ op = Op("init", <<>>, FALSE)
    /\ ret = NoReturn
    /\ trace = NoTrace
    /\ threads = AllIdle

ComposeOnce ==
    /\ op.name = "init"
    /\ \E fn \in ComposeTargets, hooks \in ComposeHooks, is_async \in AsyncFlags,
          forced \in SeqsUpTo(ForcedPool, MaxWiring - Len(hook_factory_registry)) :
          compose(fn, hooks, is_async, forced)
    /\ UNCHANGED threads

NextCompose ==
    \/ ComposeOnce
    \/ Call

SpecCompose == InitCompose /\ [][NextCompose]_vars

(***************************************************************************)
(* Properties of the life of one Incanter (Spec).                          *)
(***************************************************************************)
\* What _gen_call builds for a cache key under the registry as it is now.
FreshBuild(key) == _gen_call(hook_factory_registry, key[1], key[2], key[3], key[4])

\* C1: after any sequence of registrations and compositions, compose returns
\* what a fresh build under the registry as it is at that call produces:
\* every routine the composition cache holds is the fresh build of its key,
\* and a registration leaves both caches empty.
C1_ComposeReflectsRegistry ==
    /\ \A e \in call_cache : e.val = FreshBuild(e.key)
    /\ op.name \in {"compose", "compose_and_call"} =>
           /\ IsError(ret) => ret = FreshBuild(op.key)
           /\ ~IsError(ret) => [key |-> op.key, val |-> ret] \in call_cache
    /\ (op.name = "register" /\ ~IsError(ret)) => (call_cache = {} /\ incant_cache = {})

\* A composition after two registrations whose routine differs from what
\* the registry before the last registration builds for the same key.
C1_Witness ==
    /\ op.name = "compose"
    /\ Len(hook_factory_registry) = MaxHooks
    /\ ret.tag = "routine"
    /\ ret # _gen_call(Tail(hook_factory_registry), op.key[1], op.key[2], op.key[3],
                       op.key[4])

(***************************************************************************)
(* Properties of one composition and of the calls of its routine          *)
(* (SpecCompose).  op.key is the key of the composition, ret what compose *)
(* returned or raised, trace the last call of the routine.                *)
(***************************************************************************)
ComposedTree == _gen_dep_tree(hook_factory_registry, op.key[1], op.key[2], op.key[4])
Composed == op.name \in {"compose", "call"}
Called == op.name = "call" /\ ret.tag = "routine"
Events == trace.events
\* The positions in the run at which factory f is called.
CallsOf(f) == {p \in DOMAIN Events : Events[p].ev = "call" /\ Events[p].f = f}
\* The position at which the final line calls the target.
TargetCalls ==
    {p \in DOMAIN Events : /\ Events[p].ev = "call"
                           /\ Events[p].f = ret.fn
                           /\ Events[p].line = Len(ret.lines) + 1}
NoRepeatedFactory(tree) ==
    \A i, j \in DOMAIN tree : i # j => tree[i].factory # tree[j].factory
\* Is the node asynchronous: a coroutine function or an async context manager?
AsyncNode(node) == FnTable[node.factory].coro \/ node.ctx_mgr_kind = "async"

\* C2: one call of the composed routine invokes each factory of the
\* dependency tree exactly once, however many consumers take its result.
\* Stated for the calls that return normally of the trees that name every
\* factory once.
C2_EachFactoryOnce ==
    (Called /\ trace.err = "") =>
        LET tree == ComposedTree
        IN  NoRepeatedFactory(tree) =>
                \A k \in 1..(Len(tree) - 1) : Cardinality(CallsOf(tree[k].factory)) = 1

\* Did the enter at position p of the run succeed?
Entered(p) ==
    /\ Events[p].ev = "enter"
    /\ ~(trace.fail.at = "enter" /\ trace.fail.f = Events[p].f)
\* The positions at which the with block of line l exits.
ExitsOf(l) == {q \in DOMAIN Events : Events[q].ev = "exit" /\ Events[q].line = l}

\* C3: in every run a context manager node is entered before every step
\* placed after it in the plan and before the call of the target, and is
\* exited after all of them, also when one of them raises.
C3_EnterBeforeExitAfter ==
    Called =>
        LET tree == ComposedTree
        IN  /\ \A k \in 1..(Len(tree) - 1) :
                   tree[k].ctx_mgr_kind # None =>
                       \E l \in DOMAIN ret.lines :
                           /\ ret.lines[l].kind = "with"
                           /\ ret.lines[l].factory = tree[k].factory
            /\ \A p \in DOMAIN Events :
                   Entered(p) =>
                       /\ ret.lines[Events[p].line].kind = "with"
                       /\ \E q \in ExitsOf(Events[p].line) :
                              /\ ExitsOf(Events[p].line) = {q}
                              /\ p < q
                              /\ \A r \in DOMAIN Events :
                                     Events[r].line > Events[p].line => (p < r /\ r < q)

\* A run in which the target raised inside a with block that was entered.
C3_Witness ==
    /\ Called
    /\ trace.err = "Error"
    /\ trace.fail.f = ret.fn
    /\ TargetCalls # {}
    /\ \E p \in DOMAIN Events : Entered(p) /\ ExitsOf(Events[p].line) # {}

\* The lines of the with blocks entered, in the order of the run.
EnteredLines ==
    LET ps == SelectSeq(Events, LAMBDA e : e.ev = "enter" /\
                  ~(trace.fail.at = "enter" /\ trace.fail.f = e.f))
    IN  [k \in DOMAIN ps |-> ps[k].line]
ExitedLines ==
    LET ps == SelectSeq(Events, LAMBDA e : e.ev = "exit")
    IN  [k \in DOMAIN ps |-> ps[k].line]

\* C4: in every run, normal or failing at any step, the context managers
\* that were entered are exited in the reverse order of their entry, and
\* one that was not entered is not exited.
C4_ExitInReverseOrder ==
    Called =>
        LET entered == EnteredLines
            exited == ExitedLines
        IN  /\ Len(exited) = Len(entered)
            /\ \A k \in DOMAIN exited : exited[k] = entered[Len(entered) + 1 - k]
            /\ \A q \in DOMAIN Events :
                   Events[q].ev = "exit" =>
                       \E p \in 1..(q - 1) : Entered(p) /\ Events[p].line = Events[q].line

\* A failing run with two context managers, the second of which was not
\* entered.
C4_Witness ==
    /\ Called
    /\ trace.err = "Error"
    /\ Cardinality({l \in DOMAIN ret.lines : ret.lines[l].kind = "with"}) >= 2
    /\ Len(EnteredLines) = 1
    /\ Len(ExitedLines) = 1

\* C5: every factory passed in forced_deps is invoked on every call of the
\* composed routine, before the target is called.
C5_ForcedIsInvoked ==
    (Called /\ trace.fail = NoFail) =>
        \A i \in DOMAIN op.key[4] :
            \E p \in CallsOf(op.key[4][i].factory) :
                \A t \in TargetCalls : p < t

\* C6: compose returns fn itself exactly when the tree is the target alone
\* (the target has no factory dependency and there is no forced
\* dependency) and is_async is unspecified or the target's own nature.
C6_Passthrough ==
    Composed =>
        LET fn == op.key[1]
            is_async == op.key[3]
            tree == ComposedTree
            alone == /\ op.key[4] = <<>>
                     /\ \A k \in DOMAIN tree[Len(tree)].deps :
                            tree[Len(tree)].deps[k].tag = "param"
            own == IF FnTable[fn].coro THEN True ELSE False
        IN  /\ tree[Len(tree)].factory = fn
            /\ (Len(tree) = 1) <=> alone
            /\ (ret = Callable(fn)) <=> (alone /\ is_async \in {None, own})

\* The target alone, and compose asked for the mode the target is not in:
\* what it returned is a routine of its own.
C6_Witness ==
    /\ op.name = "compose"
    /\ Len(ComposedTree) = 1
    /\ op.key[3] = True
    /\ ~FnTable[op.key[1]].coro
    /\ ret.tag = "routine"
    /\ ret.is_async

\* C7: when is_async is False and a node of the tree, the target included,
\* is asynchronous, compose fails with the TypeError that names an
\* asynchronous factory of the tree.
C7_AsyncMismatch ==
    (Composed /\ op.key[3] = False) =>
        LET tree == ComposedTree
        IN  (\E k \in DOMAIN tree : AsyncNode(tree[k])) =>
                /\ IsError(ret)
                /\ ret.error = "TypeError"
                /\ \E k \in DOMAIN tree :
                       AsyncNode(tree[k]) /\ ret.about = <<tree[k].factory>>

\* C8: when is_async is unspecified and the tree has more than one node,
\* the composed routine is asynchronous exactly when a node of the tree, the
\* target included, is asynchronous; the detection never ends in a mode the
\* generated source does not compile in.
C8_Autodetect ==
    (Composed /\ op.key[3] = None) =>
        LET tree == ComposedTree
        IN  Len(tree) > 1 =>
                /\ IsRoutine(ret) =>
                       (ret.is_async <=> \E k \in DOMAIN tree : AsyncNode(tree[k]))
                /\ IsError(ret) => ret.error \notin {"TypeError", "SyntaxError"}
                /\ ret # Callable(op.key[1])

\* A routine made asynchronous by an async context manager alone.
C8_Witness ==
    /\ op.name = "compose"
    /\ op.key[3] = None
    /\ IsRoutine(ret)
    /\ ret.is_async
    /\ \A k \in DOMAIN ComposedTree : ~FnTable[ComposedTree[k].factory].coro

\* The outer parameters the nodes of the tree declare, in tree order.
OuterOccurrences(tree) ==
    SelectSeq(Flatten([k \in DOMAIN tree |-> tree[k].deps]), LAMBDA d : d.tag = "param")
\* The types the occurrences of name declare.
DeclaredTypes(occ, name) ==
    {occ[k].type : k \in {j \in DOMAIN occ : occ[j].arg_name = name}} \ {Empty}

\* C9: in the signature of a composed routine every outer parameter name
\* of the tree occurs exactly once; its type is the one type its typed
\* occurrences share, and it is untyped only when every occurrence is.
C9_OuterArgsOnce ==
    (Composed /\ IsRoutine(ret)) =>
        LET occ == OuterOccurrences(ComposedTree)
        IN  /\ \A i, j \in DOMAIN ret.outer_args :
                   ret.outer_args[i].arg_name = ret.outer_args[j].arg_name => i = j
            /\ {occ[k].arg_name : k \in DOMAIN occ}
                   = {ret.outer_args[i].arg_name : i \in DOMAIN ret.outer_args}
            /\ \A i \in DOMAIN ret.outer_args :
                   LET types == DeclaredTypes(occ, ret.outer_args[i].arg_name)
                   IN  IF types = {} THEN ret.outer_args[i].type = Empty
                       ELSE types = {ret.outer_args[i].type}

\* A routine with a parameter that one node declares untyped and a later
\* node typed.
C9_Witness ==
    /\ op.name = "compose"
    /\ IsRoutine(ret)
    /\ LET occ == OuterOccurrences(ComposedTree)
       IN  \E i, j \in DOMAIN occ :
               /\ i < j
               /\ occ[i].arg_name = occ[j].arg_name
               /\ occ[i].type = Empty
               /\ occ[j].type # Empty

\* The pairs of occurrences of one name that declare different types, each
\* as the argument name and the two types.
Conflicts(occ) ==
    {<<occ[c[1]].arg_name, occ[c[1]].type, occ[c[2]].type>> :
        c \in {d \in (DOMAIN occ) \X (DOMAIN occ) :
                  /\ occ[d[1]].arg_name = occ[d[2]].arg_name
                  /\ occ[d[1]].type # Empty
                  /\ occ[d[2]].type # Empty
                  /\ occ[d[1]].type # occ[d[2]].type}}
TypeConflictError(conflicts) ==
    /\ IsError(ret)
    /\ ret.error = "IncantError"
    /\ ret.about \in conflicts

\* C10 as stated: whenever two outer occurrences of one name declare
\* different types, compose fails with the IncantError that names the
\* argument and the two types.
C10_ConflictIsIncantError ==
    Composed =>
        LET conflicts == Conflicts(OuterOccurrences(ComposedTree))
        IN  conflicts # {} => TypeConflictError(conflicts)

\* C10: whenever two outer occurrences of one name declare different
\* types compose fails and returns no routine: with the TypeError of the
\* async mismatch when is_async is False and a dependency node, that is a
\* node other than the target, is asynchronous, with the IncantError that
\* names the argument and the two types otherwise.
C10_ConflictFailsCompose ==
    Composed =>
        LET tree == ComposedTree
            conflicts == Conflicts(OuterOccurrences(tree))
        IN  conflicts # {} =>
                IF op.key[3] = False /\ \E k \in 1..(Len(tree) - 1) : AsyncNode(tree[k])
                THEN IsError(ret) /\ ret.error = "TypeError"
                ELSE TypeConflictError(conflicts)

\* A composition that failed with the IncantError of a type conflict.
C10_Witness ==
    /\ op.name = "compose"
    /\ IsError(ret)
    /\ ret.error = "IncantError"
    /\ TypeConflictError(Conflicts(OuterOccurrences(ComposedTree)))

\* The occurrences of name among occ, as positions.
OccurrencesOf(occ, name) == {k \in DOMAIN occ : occ[k].arg_name = name}
\* Those of them that declare a default.
DefaultsOf(occ, name) == {k \in OccurrencesOf(occ, name) : occ[k].default # Empty}
Last(S) == CHOOSE k \in S : \A j \in S : j <= k

\* C11: an outer parameter of a composed routine has a default exactly when
\* one of its occurrences in the tree declares one, and then it is the
\* default of the last such occurrence in node order; a parameter with one
\* occurrence has the type and the default of that occurrence.
C11_MergedDefault ==
    (Composed /\ IsRoutine(ret)) =>
        LET occ == OuterOccurrences(ComposedTree)
        IN  \A i \in DOMAIN ret.outer_args :
                LET a == ret.outer_args[i]
                    mine == OccurrencesOf(occ, a.arg_name)
                    with_default == DefaultsOf(occ, a.arg_name)
                IN  /\ (a.default # Empty) <=> (with_default # {})
                    /\ with_default # {} => a.default = occ[Last(with_default)].default
                    /\ Cardinality(mine) = 1 =>
                           \A k \in mine : a.type = occ[k].type /\ a.default = occ[k].default

\* A routine with a parameter that a dependency and the target declare with
\* different defaults: it carries the target's.
C11_Witness ==
    /\ op.name = "compose"
    /\ IsRoutine(ret)
    /\ LET tree == ComposedTree
           occ == OuterOccurrences(tree)
           own == tree[Len(tree)].deps
       IN  \E i \in DOMAIN ret.outer_args, k \in DOMAIN occ, t \in DOMAIN own :
               /\ occ[k].arg_name = ret.outer_args[i].arg_name
               /\ own[t].tag = "param"
               /\ own[t].arg_name = ret.outer_args[i].arg_name
               /\ occ[k].default \notin {Empty, own[t].default}
               /\ own[t].default # Empty
               /\ ret.outer_args[i].default = own[t].default

First(S) == CHOOSE k \in S : \A j \in S : k <= j

\* C12: in the outer parameter list of a composed routine no parameter
\* without a default comes after one with a default, and two parameters of
\* the same group stand in the order of their first occurrences in the
\* flattened node list.
C12_SortedByDefault ==
    (Composed /\ IsRoutine(ret)) =>
        LET occ == OuterOccurrences(ComposedTree)
            outer == ret.outer_args
        IN  \A i, j \in DOMAIN outer :
                i < j =>
                    /\ ~(outer[i].default # Empty /\ outer[j].default = Empty)
                    /\ ((outer[i].default = Empty) <=> (outer[j].default = Empty)) =>
                           First(OccurrencesOf(occ, outer[i].arg_name))
                               < First(OccurrencesOf(occ, outer[j].arg_name))

\* A routine with two parameters in each group, in which a parameter with a
\* default occurs in the tree before one without.
C12_Witness ==
    /\ op.name = "compose"
    /\ IsRoutine(ret)
    /\ LET occ == OuterOccurrences(ComposedTree)
           outer == ret.outer_args
       IN  /\ Cardinality({i \in DOMAIN outer : outer[i].default = Empty}) >= 2
           /\ Cardinality({i \in DOMAIN outer : outer[i].default # Empty}) >= 2
           /\ \E i, j \in DOMAIN outer :
                  /\ i < j
                  /\ First(OccurrencesOf(occ, outer[j].arg_name))
                         < First(OccurrencesOf(occ, outer[i].arg_name))

(***************************************************************************)
(* Properties of the resolution of parameters (Spec).                      *)
(***************************************************************************)
ComposedHere == op.name \in {"compose", "compose_and_call"}
\* The parameters of node the builder looks at, in order.
Examined(node, fn) ==
    SelectSeq(_signature(node),
              LAMBDA q : ~(node # fn /\ q.default # Empty /\ q.kind = KO))
\* The hooks whose predicate matches param, as positions in hooks.
Matching(hooks, node, param) == {i \in DOMAIN hooks : predicate(hooks[i], param)}
\* Those of them that do not resolve to node itself.
Usable(hooks, node, param) ==
    {i \in Matching(hooks, node, param) :
        ~(hooks[i].factory # None /\ hook_factory(hooks[i], param) = node)}
\* What hook h makes of param.
Resolution(h, param) ==
    IF h.factory = None THEN ParameterDep(param.name, param.type, param.default)
    ELSE FactoryDep(hook_factory(h, param), param.name, h.is_ctx_manager)
\* Every dependency of every node of tree is what the first of the
\* candidate hooks makes of its parameter, an outer parameter when there is
\* no candidate.
ResolvedByFirst(tree, fn, hooks, Candidates(_, _, _)) ==
    \A k \in DOMAIN tree :
        LET node == tree[k].factory
            params == Examined(node, fn)
        IN  /\ Len(tree[k].deps) = Len(params)
            /\ \A j \in DOMAIN params :
                   LET c == Candidates(hooks, node, params[j])
                   IN  tree[k].deps[j] =
                           IF c = {}
                           THEN ParameterDep(params[j].name, params[j].type,
                                             params[j].default)
                           ELSE Resolution(hooks[First(c)], params[j])
\* A registration puts its hook in front of the registry.
RegistersInFront ==
    hook_factory_registry' # hook_factory_registry =>
        /\ hook_factory_registry' # <<>>
        /\ Tail(hook_factory_registry') = hook_factory_registry

\* C13 as stated: every parameter is resolved by the first hook whose
\* predicate matches it, the extra hooks of the call in the order given
\* before the registry hooks, the registry hooks from the last registered to
\* the first.
C13_FirstMatchWins ==
    /\ [](ComposedHere =>
             ResolvedByFirst(ComposedTree, op.key[1],
                             op.key[2] \o hook_factory_registry, Matching))
    /\ [][RegistersInFront]_vars

\* C13: every parameter is resolved by the first hook whose predicate
\* matches it and that does not resolve to the node the parameter belongs
\* to, the extra hooks of the call in the order given before the registry
\* hooks, the registry hooks from the last registered to the first.
C13_FirstUsableMatchWins ==
    /\ [](ComposedHere =>
             ResolvedByFirst(ComposedTree, op.key[1],
                             op.key[2] \o hook_factory_registry, Usable))
    /\ [][RegistersInFront]_vars

\* A composition in which two registered hooks with different factories
\* match one parameter of the target.
C13_Witness ==
    /\ op.name = "compose"
    /\ op.key[2] = <<>>
    /\ Len(hook_factory_registry) = 2
    /\ \E j \in DOMAIN _signature(op.key[1]) :
           LET param == _signature(op.key[1])[j]
           IN  /\ Usable(hook_factory_registry, op.key[1], param) = {1, 2}
               /\ hook_factory(hook_factory_registry[1], param)
                      # hook_factory(hook_factory_registry[2], param)
               /\ ComposedTree[Len(ComposedTree)].deps[j].factory
                      = hook_factory(hook_factory_registry[1], param)

\* The tree of a cache key under the registry as it is.
TreeOf(key) == _gen_dep_tree(hook_factory_registry, key[1], key[2], key[4])
OuterNames(routine) == {routine.outer_args[i].arg_name : i \in DOMAIN routine.outer_args}
\* The parameters of the target of key that its extra hook matches with an
\* absent resolver, as positions.
TurnedOuter(key) ==
    {j \in DOMAIN _signature(key[1]) :
        /\ key[2] # <<>>
        /\ key[2][1].factory = None
        /\ predicate(key[2][1], _signature(key[1])[j])}
\* Does a registry hook supply param of node?
Supplied(node, param) ==
    LET c == Usable(hook_factory_registry, node, param)
    IN  c # {} /\ hook_factory_registry[First(c)].factory # None

\* val, composed for key, takes every parameter the extra hook turned outer
\* from the caller.
TakesFromCaller(key, val) ==
    LET tree == TreeOf(key)
        own == tree[Len(tree)].deps
        params == _signature(key[1])
    IN  \A j \in TurnedOuter(key) :
            /\ own[j] = ParameterDep(params[j].name, params[j].type, params[j].default)
            /\ val # Callable(key[1]) =>
                   /\ IsRoutine(val)
                   /\ params[j].name \in OuterNames(val)
                   /\ val.ret_args[j] = NameExpr(params[j].name)

\* val, composed for key without extra hooks, takes the parameters the
\* extra hook of with_hook turns outer from the registry, where the registry
\* supplies them.
TakesFromRegistry(key, val, with_hook) ==
    LET tree == TreeOf(key)
        own == tree[Len(tree)].deps
        params == _signature(key[1])
    IN  \A j \in TurnedOuter(with_hook) :
            Supplied(key[1], params[j]) =>
                /\ own[j].tag = "factory"
                /\ IsRoutine(val)
                /\ val.ret_args[j] # NameExpr(params[j].name)

ReferenceValue(hooks, node, param) ==
    LET c == Usable(hooks, node, param)
    IN  IF c = {} \/ hooks[First(c)].factory = None
        THEN OuterValue(param.name)
        ELSE ResultOf(hook_factory(hooks[First(c)], param))
\* The values the reference calls node with, fn being the target.
ReferenceArgs(hooks, node, fn) ==
    [j \in DOMAIN Examined(node, fn) |-> ReferenceValue(hooks, node, Examined(node, fn)[j])]
\* The factories the reference calls for node.
ReferenceFactories(hooks, node, fn) ==
    {ReferenceArgs(hooks, node, fn)[j].of :
        j \in {i \in DOMAIN ReferenceArgs(hooks, node, fn) :
                  ReferenceArgs(hooks, node, fn)[i].src = "result"}}
RECURSIVE ReferenceNodes(_, _, _)
\* The target and the factories the reference reaches from the nodes in
\* seen.
ReferenceNodes(hooks, seen, fn) ==
    LET more == UNION {ReferenceFactories(hooks, node, fn) : node \in seen}
    IN  IF more \subseteq seen THEN seen
        ELSE ReferenceNodes(hooks, seen \cup more, fn)
\* The names the reference takes from the caller.
ReferenceOuterNames(hooks, fn) ==
    UNION {{ReferenceArgs(hooks, node, fn)[j].of :
               j \in {i \in DOMAIN ReferenceArgs(hooks, node, fn) :
                         ReferenceArgs(hooks, node, fn)[i].src = "outer"}} :
           node \in ReferenceNodes(hooks, {fn}, fn)}

\* C15: a call of a routine composed without forced dependencies, in which
\* no callable raises, ends normally; every factory and the target are
\* called with the values the reference evaluator passes them, the target
\* once, as the last step; and the outer parameters of the routine are the
\* names the reference takes from the caller.
C15_RefinesReference ==
    (Called /\ trace.fail = NoFail /\ op.key[4] = <<>>) =>
        LET hooks == op.key[2] \o hook_factory_registry
            fn == op.key[1]
        IN  /\ trace.err = ""
            /\ \A p \in DOMAIN Events :
                   Events[p].ev = "call" =>
                       /\ Events[p].f \in ReferenceNodes(hooks, {fn}, fn)
                       /\ Events[p].args = ReferenceArgs(hooks, Events[p].f, fn)
            /\ \A f \in ReferenceNodes(hooks, {fn}, fn) : CallsOf(f) # {}
            /\ TargetCalls # {}
            /\ OuterNames(ret) = ReferenceOuterNames(hooks, fn)

(***************************************************************************)
(* Properties of register_by_type (Spec).                                  *)
(***************************************************************************)
\* Every parameter of every callable of the model.
AllParams == UNION {{_signature(f)[j] : j \in DOMAIN _signature(f)} : f \in Fns}
\* The type a registration of fn by type is made under; Empty when there
\* is none to take.
TypeToRegister(fn, type) ==
    IF type # None THEN type
    ELSE IF isclass(fn) THEN fn
    ELSE return_annotation(fn)
\* What register_by_type(fn, type, is_ctx_manager) has to do.
RegisteredByType(fn, type, is_ctx_manager) ==
    IF TypeToRegister(fn, type) = Empty
    THEN /\ ret' = Error("IncantError", <<fn>>)
         /\ UNCHANGED <<hook_factory_registry, call_cache, incant_cache>>
    ELSE /\ ~IsError(ret')
         /\ Len(hook_factory_registry') = Len(hook_factory_registry) + 1
         /\ Tail(hook_factory_registry') = hook_factory_registry
         /\ hook_factory_registry'[1].factory = fn
         /\ hook_factory_registry'[1].is_ctx_manager = is_ctx_manager
         /\ \A q \in AllParams :
                predicate(hook_factory_registry'[1], q)
                    <=> \/ q.type = TypeToRegister(fn, type)
                        \/ is_subclass(q.type, TypeToRegister(fn, type))

\* C16: register_by_type without a type, for a factory that is no class and
\* has no return annotation, raises IncantError and leaves the registry and
\* both caches as they were; with a type, a class or a return annotation it
\* puts one hook in the registry, which matches the parameters declared
\* with that type or a subclass of it.
C16_RegisterByType ==
    [][\A r \in TypeRegs :
          register_by_type(r[1], r[2], r[3]) => RegisteredByType(r[1], r[2], r[3])]_vars

\* A registration by type has just failed on an Incanter with a hook and
\* with entries in both caches.
C16_Witness ==
    /\ op.name = "register"
    /\ IsError(ret)
    /\ hook_factory_registry # <<>>
    /\ call_cache # {}
    /\ incant_cache # {}

(***************************************************************************)
(* Properties of the direct-call matcher (SpecIncant).                     *)
(***************************************************************************)
DirectlyCalled == op.name = "incant"
\* The ways the precedence lets parameter q be routed, given the classes of
\* the positional arguments and the keyword arguments; none when the
\* parameter cannot be resolved.
Routes(q, args, kwargs) ==
    IF \E kw \in kwargs : kw[1] = q.name /\ is_subclass(kw[2], q.type)
    THEN {[src |-> "kwarg", of |-> q.name]}
    ELSE IF \E ix \in DOMAIN args : is_subclass(args[ix], q.type)
    THEN {[src |-> "arg", of |-> ToString(ix - 1)] :
             ix \in {k \in DOMAIN args : is_subclass(args[k], q.type)}}
    ELSE IF q.name \in KwNames(kwargs)
    THEN {[src |-> "kwarg", of |-> q.name]}
    ELSE IF q.default # Empty
    THEN {[src |-> "default", of |-> q.name]}
    ELSE {}
\* What the i-th parameter of the target received in the call.
Received(params, vals, i) ==
    IF i <= Len(vals) THEN vals[i] ELSE [src |-> "default", of |-> params[i].name]

\* C17: a direct call routes every parameter of fn by the precedence: the
\* keyword argument of its name and a compatible class, else a positional
\* argument of a compatible class, else the keyword argument of its name,
\* else its default; a parameter with none of these fails the call with
\* the error naming it, and arguments no parameter takes are ignored.
C17_MatcherPrecedence ==
    DirectlyCalled =>
        LET params == signature(op.key[1])
            args == op.key[2]
            kwargs == op.key[3]
            unresolved == {i \in DOMAIN params : Routes(params[i], args, kwargs) = {}}
        IN  IF unresolved # {}
            THEN ret = Error("TypeError",
                             <<params[CHOOSE i \in unresolved :
                                         \A j \in unresolved : i <= j].name>>)
            ELSE /\ ~IsError(ret)
                 /\ trace.err = ""
                 /\ Len(trace.events) = 1
                 /\ trace.events[1].f = op.key[1]
                 /\ \A i \in DOMAIN params :
                        Received(params, trace.events[1].args, i)
                            \in Routes(params[i], args, kwargs)

(***************************************************************************)
(* Properties of the direct-call cache (Spec).                             *)
(***************************************************************************)
\* The shape of a direct call: the target, the classes of the positional
\* arguments, the names and classes of the keyword arguments.
ShapeOf(key) == [fn |-> key[1], pos_args |-> key[2], kwargs |-> key[3]]
CachedShapes == {e.key.shape : e \in incant_cache}
\* A direct call of a shape the cache holds a plan for is a hit and adds
\* nothing to the cache.
RepeatedCallHits ==
    (op'.name = "incant" /\ op' # op /\ ShapeOf(op'.key) \in CachedShapes)
        => op'.hit /\ incant_cache' = incant_cache

\* C18: two direct calls of one shape with no registration between them use
\* one cached plan: the second is a hit and adds no entry, and the cache
\* holds at most one entry per shape.
C18_OnePlanPerShape ==
    /\ [](\A e1, e2 \in incant_cache : e1.key.shape = e2.key.shape => e1 = e2)
    /\ [][RepeatedCallHits]_vars

(***************************************************************************)
(* Properties of the composition cache (Spec).                             *)
(***************************************************************************)
\* The entries of the cache made for the same target, extra hooks, is_async
\* and forced dependencies.
SameKey(fn, hooks, is_async, forced_deps) ==
    {e \in call_cache : /\ e.key[1] = fn
                        /\ e.key[2] = hooks
                        /\ e.key[3] = is_async
                        /\ e.key[4] = forced_deps}
\* What a compose of (fn, hooks, is_async, forced_deps) does to the cache:
\* with an entry of the same key it returns that entry's routine and builds
\* nothing; without one it builds from the registry and stores the routine
\* under its own key.
ThroughCache(fn, hooks, is_async, forced_deps) ==
    IF SameKey(fn, hooks, is_async, forced_deps) # {}
    THEN /\ Cardinality(SameKey(fn, hooks, is_async, forced_deps)) = 1
         /\ op'.hit
         /\ call_cache' = call_cache
         /\ \E e \in SameKey(fn, hooks, is_async, forced_deps) : ret' = e.val
    ELSE /\ ~op'.hit
         /\ ret' = _gen_call(hook_factory_registry, fn, hooks, is_async, forced_deps)
         /\ call_cache' =
                IF IsError(ret') THEN call_cache
                ELSE call_cache \cup {[key |-> <<fn, hooks, is_async, forced_deps>>,
                                        val |-> ret']}
\* The step is the operation named, on target fn with the extra hooks and
\* the forced dependencies given.
StepOf(name, fn, hooks, forced_deps) ==
    /\ op'.name = name
    /\ op'.key[1] = fn
    /\ op'.key[2] = hooks
    /\ op'.key[4] = forced_deps
ComposesThroughCache ==
    /\ \A fn \in Targets, a \in ComposeArgs :
           (StepOf("compose", fn, a[1], a[2]) /\ compose(fn, a[1], None, a[2]))
               => ThroughCache(fn, a[1], None, a[2])
    /\ (StepOf("compose_and_call", "fn", <<>>, <<>>) /\ compose_and_call("fn", False))
           => ThroughCache("fn", <<>>, False, <<>>)
    /\ (StepOf("compose_and_call", "afn", <<>>, <<>>) /\ compose_and_call("afn", True))
           => ThroughCache("afn", <<>>, True, <<>>)

\* C19: between two registrations the compose calls of one key (target,
\* extra hooks, is_async with unspecified apart from false, forced
\* dependencies) build once and return the one stored routine; calls whose
\* keys differ in a component never share an entry.
C19_ComposeCacheKey ==
    /\ [](\A e1, e2 \in call_cache : e1.key = e2.key => e1 = e2)
    /\ [][ComposesThroughCache]_vars

\* A compose has just hit the cache while the cache holds two entries that
\* differ in is_async alone.
C19_Witness ==
    /\ op.name \in {"compose", "compose_and_call"}
    /\ op.hit
    /\ \E e1, e2 \in call_cache :
          /\ e1.key[3] # e2.key[3]
          /\ [e1.key EXCEPT ![3] = None] = [e2.key EXCEPT ![3] = None]

(***************************************************************************)
(* Properties of concurrent compositions (SpecThreads).                    *)
(***************************************************************************)
\* The threads whose compose of key has returned a routine.
Returned(key) ==
    {t \in Threads : /\ threads[t].key = key
                     /\ threads[t].pc = "done"
                     /\ ~IsError(threads[t].obj.val)}
\* The threads that ran the build for key.
Builders(key) == {t \in Threads : threads[t].key = key /\ threads[t].built}

\* C20: threads that compose the same key concurrently on an empty cache
\* converge on one build: the plan is built once and every caller receives
\* the same routine object.
C20_SingleBuild ==
    threads[Registrar].pc = "idle" =>
        \A key \in ThreadKeys :
            /\ Cardinality(Builders(key)) <= 1
            /\ \A t1, t2 \in Returned(key) : threads[t1].obj = threads[t2].obj

\* The registration on the registrar thread has returned and no compose is
\* in flight.
Settled ==
    /\ threads[Registrar].pc = "done"
    /\ \A t \in Threads : threads[t].pc \in {"idle", "done"}

\* C21: registration and cache invalidation are exclusive with respect to
\* composition: once a registration interleaved with a compose miss has
\* returned and the compose has finished, the composition cache holds no
\* plan of the registry before the registration, so every plan it holds is
\* the one the registry as it is now builds.
C21_NoStalePlan ==
    Settled => \A e \in call_cache : e.val = FreshBuild(e.key)

(***************************************************************************)
(* Properties of the node list of _gen_dep_tree (SpecCompose).             *)
(***************************************************************************)
\* The factories the nodes of factory f in the tree depend on.
FactoryDepsOf(tree, f) ==
    UNION {{tree[i].deps[k].factory :
               k \in {j \in DOMAIN tree[i].deps : tree[i].deps[j].tag = "factory"}} :
           i \in {j \in DOMAIN tree : tree[j].factory = f}}
RECURSIVE ReachableFrom(_, _, _)
\* The factories reached from those of S in at most n more steps.
ReachableFrom(tree, S, n) ==
    IF n = 0 THEN S
    ELSE ReachableFrom(tree, S \cup UNION {FactoryDepsOf(tree, f) : f \in S}, n - 1)
\* No factory of the tree depends on itself, directly or through others.
Acyclic(tree) ==
    \A i \in DOMAIN tree :
        tree[i].factory \notin
            ReachableFrom(tree, FactoryDepsOf(tree, tree[i].factory), Len(tree))

\* C22: in the node list of a configuration without cycles every node comes
\* after every node it has a factory dependency on.
C22_DependenciesFirst ==
    Composed =>
        LET tree == ComposedTree
        IN  Acyclic(tree) =>
                \A i \in DOMAIN tree : \A k \in DOMAIN tree[i].deps :
                    tree[i].deps[k].tag = "factory" =>
                        \E j \in 1..(i - 1) : tree[j].factory = tree[i].deps[k].factory

\* C23: every factory occurs at most once as a node of the node list,
\* whether it is reached through several hooks or consumers, is also a
\* forced dependency, or is the target itself.
C23_EachFactoryOneNode ==
    Composed => NoRepeatedFactory(ComposedTree)

\* The last node of a node list.
LastNode(tree) == tree[Len(tree)]

\* C24: the last element of the node list is the target, with all its
\* parameters, wherever the sort by number of dependencies puts the others.
C24_TargetIsLast ==
    Composed =>
        /\ ComposedTree # <<>>
        /\ LastNode(ComposedTree).factory = op.key[1]
        /\ LastNode(ComposedTree).ctx_mgr_kind = None
        /\ Len(LastNode(ComposedTree).deps) = Len(_signature(op.key[1]))

\* A node list in which a dependency has more dependencies than the target:
\* a sort of the whole list would move the target.
C24_Witness ==
    /\ Composed
    /\ Len(ComposedTree) >= 3
    /\ \E i \in 1..(Len(ComposedTree) - 1) :
          Len(ComposedTree[i].deps) > Len(LastNode(ComposedTree).deps)

\* The hooks of the composition: the extra hooks, then the registry.
ComposedHooks == op.key[2] \o hook_factory_registry
\* Does the first hook that matches param resolve to node itself?
FirstResolvesToSelf(hooks, node, param) ==
    /\ Matching(hooks, node, param) # {}
    /\ First(Matching(hooks, node, param)) \notin Usable(hooks, node, param)

\* C25: when the first hook matching a parameter of node N resolves to N
\* itself, the next matching hook that does not is used, and with none left
\* the parameter is an outer parameter with its declared type and default;
\* N is never its own direct dependency.
C25_SelfIsSkipped ==
    Composed =>
        \A k \in DOMAIN ComposedTree :
            LET node == ComposedTree[k].factory
                deps == ComposedTree[k].deps
                params == Examined(node, op.key[1])
            IN  /\ \A j \in DOMAIN deps :
                       ~(deps[j].tag = "factory" /\ deps[j].factory = node)
                /\ \A j \in DOMAIN params :
                       FirstResolvesToSelf(ComposedHooks, node, params[j]) =>
                           deps[j] =
                               IF Usable(ComposedHooks, node, params[j]) = {}
                               THEN ParameterDep(params[j].name, params[j].type,
                                                 params[j].default)
                               ELSE Resolution(
                                        ComposedHooks[First(Usable(ComposedHooks, node,
                                                                   params[j]))],
                                        params[j])

\* A node whose parameter is first matched by a hook resolving to the node
\* itself and is resolved by a later hook.
C25_Witness ==
    /\ Composed
    /\ \E k \in DOMAIN ComposedTree :
          \E j \in DOMAIN Examined(ComposedTree[k].factory, op.key[1]) :
              /\ FirstResolvesToSelf(ComposedHooks, ComposedTree[k].factory,
                                     Examined(ComposedTree[k].factory, op.key[1])[j])
              /\ ComposedTree[k].deps[j].tag = "factory"

(***************************************************************************)
(* Properties of the order of a run (SpecCompose).                         *)
(***************************************************************************)
\* The position in the run at which the node of factory f starts: its call.
StartOf(f) == First(CallsOf(f))

\* C26: within one call of a composed routine the factories are invoked in
\* the order of the node list, whether a factory is inlined at its use site
\* or bound to a local first.  Stated for the calls that return normally of
\* the trees that name every factory once.
C26_PlanOrder ==
    (Called /\ trace.err = "" /\ trace.fail = NoFail) =>
        LET tree == ComposedTree
        IN  NoRepeatedFactory(tree) =>
                \A i, j \in 1..(Len(tree) - 1) :
                    (/\ i < j
                     /\ CallsOf(tree[i].factory) # {}
                     /\ CallsOf(tree[j].factory) # {})
                        => StartOf(tree[i].factory) < StartOf(tree[j].factory)

(***************************************************************************)
(* Properties of the locals of a compiled routine (SpecCompose).           *)
(***************************************************************************)
\* Every node of the tree comes after the nodes it depends on.
InDependencyOrder(tree) ==
    \A i \in DOMAIN tree : \A k \in DOMAIN tree[i].deps :
        tree[i].deps[k].tag = "factory" =>
            \E j \in 1..(i - 1) : tree[j].factory = tree[i].deps[k].factory
\* The dependencies of the node of factory f.
DepsOfFactory(tree, f) ==
    tree[CHOOSE i \in DOMAIN tree : tree[i].factory = f].deps
\* The locals the lines before line i bind, each with the factory whose
\* result it holds.
BoundBefore(lines, i) ==
    {<<lines[j].slot, lines[j].factory>> :
        j \in {k \in DOMAIN lines : k < i /\ lines[k].slot # -1}}
RECURSIVE ReadsItsFactory(_, _, _, _)
\* Does the expression written for dependency dep read, wherever it names
\* a local, a local bound to the result of the factory of the dependency?
ReadsItsFactory(expr, dep, tree, bound) ==
    IF expr.tag = "local"
    THEN dep.tag = "factory" /\ <<expr.ix, dep.factory>> \in bound
    ELSE IF expr.tag = "call"
    THEN \A k \in DOMAIN expr.args :
             ReadsItsFactory(expr.args[k], DepsOfFactory(tree, expr.name)[k], tree, bound)
    ELSE TRUE

\* C27: in a compiled routine every argument that names a local names the
\* local an earlier line bound to the result of that argument's factory,
\* also when inlined or forced factories, which bind no local, come before
\* it.  Stated for the trees in dependency order that name every factory
\* once.
C27_SlotsAgree ==
    (Composed /\ IsRoutine(ret)) =>
        LET tree == ComposedTree
            lines == ret.lines
        IN  (NoRepeatedFactory(tree) /\ InDependencyOrder(tree)) =>
                /\ \A i \in DOMAIN lines : \A k \in DOMAIN lines[i].args :
                       ReadsItsFactory(lines[i].args[k],
                                       DepsOfFactory(tree, lines[i].factory)[k],
                                       tree, BoundBefore(lines, i))
                /\ \A k \in DOMAIN ret.ret_args :
                       ReadsItsFactory(ret.ret_args[k], LastNode(tree).deps[k],
                                       tree, BoundBefore(lines, Len(lines) + 1))

(***************************************************************************)
(* Termination of _gen_dep_tree (SpecCompose).                             *)
(***************************************************************************)
\* The factories the hooks can resolve a parameter of the model to.
HookFactories(hooks) ==
    {hook_factory(hooks[i], q) :
        i \in {k \in DOMAIN hooks : hooks[k].factory # None}, q \in AllParams}

\* C28: the graph builder ends for every configuration, cyclic ones
\* included, having processed at most one node for the target, one for
\* each forced dependency and one for each factory the hooks resolve to.
C28_BoundedNodes ==
    Composed =>
        Len(ComposedTree) <= 1 + Len(op.key[4]) + Cardinality(HookFactories(ComposedHooks))

\* A composition whose tree has a cycle.
C28_Witness ==
    /\ Composed
    /\ ~Acyclic(ComposedTree)

(***************************************************************************)
(* Properties of failing compositions (SpecFailing).                       *)
(***************************************************************************)
\* A compose or an invoke that failed in the build.
FailedCompose == op.name \in {"compose", "compose_and_call"} /\ IsError(ret)
\* A failing compose changes neither the registry nor a cache, and a step
\* that repeats it on the same registry fails with the same error.
FailsCleanly ==
    /\ (op'.name \in {"compose", "compose_and_call"} /\ IsError(ret'))
           => UNCHANGED <<hook_factory_registry, call_cache, incant_cache>>
    /\ (FailedCompose /\ op'.name = op.name /\ op'.key = op.key
           /\ hook_factory_registry' = hook_factory_registry)
           => ret' = ret

\* C29: a compose that fails with a type conflict or an async mismatch
\* leaves the registry and the cache entries as they were and stores
\* nothing for its key; the same call fails again with the same error, and
\* it succeeds as soon as the registry no longer holds the cause.
C29_FailedComposeStoresNothing ==
    /\ [](FailedCompose =>
             /\ ret.error \in {"TypeError", "IncantError"}
             /\ CacheGet(call_cache, op.key) = {})
    /\ [](op.name \in {"compose", "compose_and_call"} =>
             (IsError(ret) <=> IsError(FreshBuild(op.key))))
    /\ [][FailsCleanly]_vars

\* A compose has just failed on an Incanter whose cache holds a routine.
C29_Witness ==
    /\ FailedCompose
    /\ call_cache # {}

(***************************************************************************)
(* Properties of the wrapper of a direct call (SpecIncant).                *)
(***************************************************************************)
\* Does the plan leave parameter q out: no keyword argument of a compatible
\* class, no positional one, none of its name, and a default?
Omitted(q, args, kwargs) ==
    /\ ~\E kw \in kwargs : class_pred(kw[2], q)
    /\ ~(q.type # Empty /\ \E ix \in DOMAIN args : class_pred(args[ix], q))
    /\ q.name \notin KwNames(kwargs)
    /\ q.default # Empty
\* The parameters the plan has a value for, in the order of the signature.
Planned(params, args, kwargs) ==
    SelectSeq(params, LAMBDA q : ~Omitted(q, args, kwargs))

\* C30: in a direct call every value the plan selects is passed to the
\* parameter it was matched to, also when an earlier parameter with a
\* default is left out of the plan: the k-th value the target receives is
\* the one selected for its k-th parameter.
C30_ValuesReachTheirParameters ==
    (DirectlyCalled /\ ~IsError(ret) /\ trace.err = "") =>
        LET params == signature(op.key[1])
            planned == Planned(params, op.key[2], op.key[3])
        IN  /\ Len(trace.events[1].args) = Len(planned)
            /\ \A k \in DOMAIN planned : planned[k] = params[k]

====
